---- MODULE Spec2Model ----
(***************************************************************************)
(* A model of the xBasic interpreter pipeline: the parser's statement      *)
(* driver (internal/parser/parser.go), the tree-walking evaluator (package *)
(* interpreter) and the built-in functions (internal/builtins).  The       *)
(* evaluator is written in Go as mutually recursive functions; here the Go *)
(* call stack below Run is explicit (goStack), one record per active       *)
(* executeXxxStatement / callSub / callFunction, and one step of the model *)
(* is one executeStatement dispatch, one loop-head test or one return      *)
(* through a Go frame.  A FUNCTION called inside an expression runs to its *)
(* end within the step that evaluates the expression.                      *)
(*                                                                         *)
(* Numbers.  A float64 is the fraction n/d with d a power of two, the      *)
(* values float64 arithmetic is exact on; a computation whose result has   *)
(* no such fraction within MaxInt and MaxDen (1/3, the sine of 1, 1E300)   *)
(* leaves the model: the step that meets it is not taken, and nothing is   *)
(* said about the runs that go through it.                                 *)
(***************************************************************************)
EXTENDS Integers, Sequences, FiniteSets, TLC

VARIABLES
    tokens,     \* parser input: the token stream the lexer hands the parser
    program,    \* ast.Program: Statements, Labels, LineNumbers, DataItems, Subs, Functions
    env,        \* Interpreter.env: the current *Environment (an address in heap)
    heap,       \* the Environment objects allocated so far, by address
    state,      \* Interpreter.state: the ExecutionState
    goStack,    \* the Go activations below Run: bodies being executed
    signal,     \* the error value travelling up the Go stack (NoSignal when nil)
    result,     \* what Run has returned: "ready", "running", "ok", "error";
                \* "crashed" when a panic ended the process instead; "editing"
                \* in the IDE; "rejected" when the parser reported errors;
                \* "lexing" and "parsing" before the program exists
    trace,      \* history: the statements executeStatement was called on
    calls,      \* history: the SUB / FUNCTION activations that have returned
    files,      \* Interpreter.files: file number -> *FileHandle
    disk,       \* the host's file system: file name -> bytes (bytes are 0..255)
    host,       \* the host of the run: the lines the input callback will
                \* return, the bytes the output callback has received, the
                \* numbers the random source and the clock will give
    stopCalled, \* history: the host has called Stop during this run
    recording   \* whether the run is recorded in trace (and so bounded)

vars == <<tokens, program, env, heap, state, goStack, signal, result, trace, calls, files, disk,
          host, stopCalled, recording>>

\* The functions of the parser and of the interpreter call one another:
\* evaluate calls callFunction, whose body loop calls executeStatement, which
\* calls evaluate.  Call(f, a) is the call of the function named f on the
\* arguments a; its definition, after the functions, names them.
RECURSIVE Call(_, _)

\* --------------------------------------------------------------------------
\* Bounds of the model
\* --------------------------------------------------------------------------
\* the statements of a recorded run
MaxSteps == 14
\* an array has up to MaxRank dimensions and MaxCells elements; the
\* subscript tuples tried on an array are in -1..MaxSub
MaxRank == 3
MaxSub == 4
MaxCells == 64
\* the steps the body of a FUNCTION called inside an expression may take,
\* and the calls of FUNCTIONs that may be open at once
MaxCallSteps == 24
MaxNesting == 2
\* the numerators and the denominators of the fractions; twice MaxInt + 1
\* is a 32-bit integer
MaxInt == 1073741822
MaxDen == 134217728
\* the bytes of a string
MaxString == 48

\* --------------------------------------------------------------------------
\* Small helpers
\* --------------------------------------------------------------------------
Last(s) == s[Len(s)]
Front(s) == SubSeq(s, 1, Len(s) - 1)
EmptyMap == [k \in {} |-> 0]
Nil == 0
Abs(n) == IF n < 0 THEN -n ELSE n
Max(a, b) == IF a < b THEN b ELSE a
Least(a, b) == IF a < b THEN a ELSE b

RECURSIVE Pow(_, _)
Pow(b, k) == IF k = 0 THEN 1 ELSE b * Pow(b, k - 1)

\* The characters of the names, keywords and literals of the sources: the
\* printable ASCII characters other than the grave accent, whose byte is
\* 32 plus the place in Chars up to the underscore and one more after it
Chars ==
    " !\"#$%&'()*+,-./0123456789:;<=>?@ABCDEFGHIJKLMNOPQRSTUVWXYZ[\\]^_abcdefghijklmnopqrstuvwxyz{|}~"
CharAt(s, k) == SubSeq(s, k, k)
CodeOf ==
    [c \in {CharAt(Chars, k) : k \in 1..Len(Chars)} |->
        LET k == CHOOSE i \in 1..Len(Chars) : CharAt(Chars, i) = c
        IN IF k <= 64 THEN 31 + k ELSE 32 + k]

\* the bytes of a Go string
BytesOf(s) == IF s = "" THEN <<>> ELSE [k \in 1..Len(s) |-> CodeOf[CharAt(s, k)]]

\* the bytes that are characters of Chars, and the Go string of such bytes
Printable(bytes) == \A k \in 1..Len(bytes) : bytes[k] \in (32..126) \ {96}
TextOf(bytes) ==
    IF bytes = <<>> THEN ""
    ELSE CharAt(Chars, IF bytes[1] < 96 THEN bytes[1] - 31 ELSE bytes[1] - 32)
         \o Call("TextOf", <<Tail(bytes)>>)

\* strings.ToUpper: a to z become A to Z, every other byte stays
UpperOf ==
    [c \in DOMAIN CodeOf |->
        IF CodeOf[c] \in 97..122 THEN CharAt(Chars, CodeOf[c] - 63) ELSE c]
ToUpper(s) ==
    IF s = "" THEN "" ELSE UpperOf[CharAt(s, 1)] \o Call("ToUpper", <<SubSeq(s, 2, Len(s))>>)

\* strings.ToUpper and strings.ToLower on the bytes of an ASCII string
UpperBytes(s) == [k \in 1..Len(s) |-> IF s[k] \in 97..122 THEN s[k] - 32 ELSE s[k]]
LowerBytes(s) == [k \in 1..Len(s) |-> IF s[k] \in 65..90 THEN s[k] + 32 ELSE s[k]]
Ascii(s) == \A k \in 1..Len(s) : s[k] < 128

\* ast.DataTypeFromSuffix
DataTypeFromSuffix(suffix) ==
    CASE suffix = "%" -> "INTEGER"
      [] suffix = "&" -> "LONG"
      [] suffix = "!" -> "SINGLE"
      [] suffix = "#" -> "DOUBLE"
      [] suffix = "$" -> "STRING"
      [] OTHER -> "UNKNOWN"

\* ast.DataTypeFromSuffix on the last character of a name, as parseIdentifier,
\* parseParameters and parseFunctionStatement call it; the zero DataType,
\* TypeUnknown, for the empty name
SuffixType(name) ==
    IF name = "" THEN "UNKNOWN" ELSE DataTypeFromSuffix(CharAt(name, Len(name)))

\* --------------------------------------------------------------------------
\* float64.  The fraction n/d in lowest terms, d a power of two; the
\* negative zero is 0/-1; NaF stands for every float64 the model has no
\* fraction for (among them the infinities and the NaNs)
\* --------------------------------------------------------------------------
RECURSIVE GCD(_, _)
GCD(a, b) == IF b = 0 THEN a ELSE GCD(b, a % b)

NaF == [n |-> 0, d |-> 0]
Zero == [n |-> 0, d |-> 1]
NegZero == [n |-> 0, d |-> -1]
IsNaF(f) == f.d = 0

\* the fraction n/d, d > 0, in lowest terms
Float(n, d) == LET With(g) == [n |-> n \div g, d |-> d \div g] IN With(GCD(Abs(n), d))

RECURSIVE PowerOfTwo(_)
PowerOfTwo(d) == d = 1 \/ (d > 1 /\ d % 2 = 0 /\ PowerOfTwo(d \div 2))

\* whether a * b is within the integers of the model
Fits(a, b) == a = 0 \/ b = 0 \/ Abs(a) <= MaxInt \div Abs(b)

\* whether f is a float64 of the model: a fraction in lowest terms whose
\* denominator is a power of two, or one of the zeroes.  A float64 is such a
\* fraction, and no other fraction is a float64
Dyadic(f) ==
    /\ f.d # 0
    /\ Abs(f.n) <= MaxInt
    /\ IF f.n = 0 THEN f.d \in {1, -1}
       ELSE f.d > 0 /\ f.d <= MaxDen /\ PowerOfTwo(f.d) /\ GCD(Abs(f.n), f.d) = 1

\* the float64 that is n/d exactly, when there is one in the model
Exact(n, d) ==
    LET With(f) == IF Dyadic(f) THEN f ELSE NaF
    IN With(Float(n, d))

\* the sign bit, the magnitude, and the float64 of a sign and a magnitude
Negative(f) == f.n < 0 \/ f.d < 0
Magnitude(f) == IF f.n = 0 THEN Zero ELSE [n |-> Abs(f.n), d |-> f.d]
WithSign(neg, f) ==
    IF IsNaF(f) \/ ~neg THEN f
    ELSE IF f.n = 0 THEN NegZero ELSE [n |-> -f.n, d |-> f.d]
\* the two zeroes are one number
OneZero(f) == IF f.n = 0 /\ f.d < 0 THEN Zero ELSE f

\* -f, math.Abs(f)
Neg(f) == IF IsNaF(f) THEN NaF ELSE WithSign(~Negative(f), Magnitude(f))
FAbs(f) == IF IsNaF(f) THEN NaF ELSE Magnitude(f)

\* the whole part of a fraction, towards minus infinity
FloorOf(f) == IF f.n = 0 THEN 0 ELSE f.n \div f.d

\* int64(f): the fraction is dropped, towards zero
Trunc(f) == IF f.n = 0 \/ f.d = 0 THEN 0
            ELSE IF f.n > 0 THEN f.n \div f.d ELSE -((-f.n) \div f.d)

\* the arithmetic of float64 on two float64s of the model: the exact result
\* when that is a float64 of the model, which is then what the rounding of
\* float64 gives; NaF when it is not, and NaF for an operand that is no
\* float64 of the model.  Of two denominators that are powers of two the
\* greater is the common one.  A sum of zeroes is the negative zero when
\* both are
Sum(a, b) ==
    IF ~Dyadic(a) \/ ~Dyadic(b) THEN NaF
    ELSE IF a.n = 0 /\ b.n = 0 THEN (IF a.d < 0 /\ b.d < 0 THEN NegZero ELSE Zero)
    ELSE IF a.n = 0 THEN b
    ELSE IF b.n = 0 THEN a
    ELSE LET With(D) ==
                 IF Fits(a.n, D \div a.d) /\ Fits(b.n, D \div b.d)
                 THEN Call("Exact", <<a.n * (D \div a.d) + b.n * (D \div b.d), D>>)
                 ELSE NaF
         IN With(Max(a.d, b.d))
Difference(a, b) == Call("Sum", <<a, Neg(b)>>)
Product(a, b) ==
    IF ~Dyadic(a) \/ ~Dyadic(b) THEN NaF
    ELSE IF a.n = 0 \/ b.n = 0 THEN WithSign(Negative(a) # Negative(b), Zero)
    ELSE IF Fits(a.n, b.n) /\ Fits(a.d, b.d) THEN Call("Exact", <<a.n * b.n, a.d * b.d>>)
    ELSE NaF
\* a / b for b other than the zeroes
Quotient(a, b) ==
    IF ~Dyadic(a) \/ ~Dyadic(b) \/ b.n = 0 THEN NaF
    ELSE IF a.n = 0 THEN WithSign(Negative(a) # Negative(b), Zero)
    ELSE IF Fits(a.n, b.d) /\ Fits(a.d, b.n)
    THEN Call("Exact", <<(IF b.n < 0 THEN -1 ELSE 1) * a.n * b.d, a.d * Abs(b.n)>>)
    ELSE NaF

\* whether a/b < c/d, for b > 0 and d > 0: by the whole parts, and when
\* these are equal by the remainders ra/b < rc/d, which is d/rc < b/ra
RECURSIVE FractionLess(_, _, _, _)
FractionLess(a, b, c, d) ==
    IF a \div b # c \div d THEN a \div b < c \div d
    ELSE IF c % d = 0 THEN FALSE
    ELSE IF a % b = 0 THEN TRUE
    ELSE FractionLess(d, c % d, b, a % b)
\* a < b and a == b
Less(a, b) ==
    LET Ordered(x, y) == FractionLess(x.n, x.d, y.n, y.d)
    IN ~IsNaF(a) /\ ~IsNaF(b) /\ Ordered(OneZero(a), OneZero(b))
FloatEq(a, b) == ~IsNaF(a) /\ ~IsNaF(b) /\ OneZero(a) = OneZero(b)

\* math.Floor, math.Trunc, math.Round (halves away from zero) and
\* math.RoundToEven: a zero result has the sign of the argument
Whole(t, f) == IF t = 0 THEN WithSign(Negative(f), Zero) ELSE Float(t, 1)
Floor(f) == IF IsNaF(f) THEN NaF ELSE IF f.n = 0 THEN f ELSE Whole(FloorOf(f), f)
FTrunc(f) == IF IsNaF(f) THEN NaF ELSE Whole(Trunc(f), f)
Round(f) ==
    LET Up(m) == (2 * (m.n % m.d) >= m.d)
        Near(m) == (m.n \div m.d) + (IF Up(m) THEN 1 ELSE 0)
    IN IF IsNaF(f) THEN NaF
       ELSE IF f.n = 0 THEN f
       ELSE Whole((IF f.n < 0 THEN -1 ELSE 1) * Near(Magnitude(f)), f)
RoundToEven(f) ==
    LET Up(m) == \/ 2 * (m.n % m.d) > m.d
                 \/ (2 * (m.n % m.d) = m.d /\ (m.n \div m.d) % 2 = 1)
        Near(m) == (m.n \div m.d) + (IF Up(m) THEN 1 ELSE 0)
    IN IF IsNaF(f) THEN NaF
       ELSE IF f.n = 0 THEN f
       ELSE Whole((IF f.n < 0 THEN -1 ELSE 1) * Near(Magnitude(f)), f)

\* the number of binary digits of n > 0
RECURSIVE BitLength(_)
BitLength(n) == IF n = 0 THEN 0 ELSE 1 + BitLength(n \div 2)

\* float32(f) of a float64 of the model: the nearest fraction with a
\* numerator of 24 binary digits, halves to the even one (the denominator
\* stays a power of two).  NaF for what is no float64 of the model
Float32(f) ==
    LET Rounded(m, s) ==
            LET With(q, r, half) ==
                    (IF r > half \/ (r = half /\ q % 2 = 1) THEN q + 1 ELSE q) * (2 * half)
            IN With(m \div Pow(2, s), m % Pow(2, s), Pow(2, s - 1))
        Narrow(m, d) ==
            IF BitLength(m) <= 24 THEN [n |-> m, d |-> d]
            ELSE Call("Exact", <<Rounded(m, BitLength(m) - 24), d>>)
    IN IF ~Dyadic(f) THEN NaF
       ELSE IF f.n = 0 THEN f
       ELSE WithSign(f.n < 0, Narrow(Abs(f.n), f.d))

\* int16(x) and int32(x) of an int64 x: the low bits, as a signed number.
\* Every integer of the model is within int32
Int16(x) == ((x + 32768) % 65536) - 32768
Int32(x) == x

\* the / and % of Go on int64: the quotient is truncated towards zero
GoDiv(a, b) == IF (a < 0) = (b < 0) THEN Abs(a) \div Abs(b) ELSE -(Abs(a) \div Abs(b))
GoRem(a, b) == a - b * GoDiv(a, b)

\* --------------------------------------------------------------------------
\* Text
\* --------------------------------------------------------------------------
\* fmt.Sprintf("%d"): the decimal digits of a natural number, as bytes
RECURSIVE Digits(_)
Digits(n) == IF n < 10 THEN <<48 + n>> ELSE Digits(n \div 10) \o <<48 + (n % 10)>>
FormatInt(n) == IF n < 0 THEN <<45>> \o Digits(-n) ELSE Digits(n)
\* the same as a Go string, for the messages of the errors
IntText(n) == Call("TextOf", <<Call("FormatInt", <<n>>)>>)

\* the digits after the decimal point of n/d, 0 <= n < d, at most k of them
RECURSIVE FractionDigits(_, _, _)
FractionDigits(n, d, k) ==
    IF n = 0 \/ k = 0 THEN <<>>
    ELSE <<48 + ((n * 10) \div d)>> \o FractionDigits((n * 10) % d, d, k - 1)

\* strings.TrimSpace: the white space of Unicode is taken from both ends; in
\* UTF-8 it is one of the bytes 9 to 13 and 32, or U+0085, U+00A0, U+1680,
\* U+2000 to U+200A, U+2028, U+2029, U+202F, U+205F, U+3000
SpaceAtStart(s) ==
    IF s = <<>> THEN 0
    ELSE IF s[1] \in {9, 10, 11, 12, 13, 32} THEN 1
    ELSE IF Len(s) >= 2 /\ s[1] = 194 /\ s[2] \in {133, 160} THEN 2
    ELSE IF Len(s) >= 3 /\ \/ (s[1] = 225 /\ s[2] = 154 /\ s[3] = 128)
                           \/ (s[1] = 226 /\ s[2] = 128 /\ s[3] \in (128..138) \cup {168, 169, 175})
                           \/ (s[1] = 226 /\ s[2] = 129 /\ s[3] = 159)
                           \/ (s[1] = 227 /\ s[2] = 128 /\ s[3] = 128)
    THEN 3
    ELSE 0
SpaceAtEnd(s) ==
    IF s = <<>> THEN 0
    ELSE IF s[Len(s)] \in {9, 10, 11, 12, 13, 32} THEN 1
    ELSE IF Len(s) >= 2 /\ SpaceAtStart(SubSeq(s, Len(s) - 1, Len(s))) = 2 THEN 2
    ELSE IF Len(s) >= 3 /\ SpaceAtStart(SubSeq(s, Len(s) - 2, Len(s))) = 3 THEN 3
    ELSE 0
TrimSpace(s) ==
    IF SpaceAtStart(s) > 0 THEN Call("TrimSpace", <<SubSeq(s, SpaceAtStart(s) + 1, Len(s))>>)
    ELSE IF SpaceAtEnd(s) > 0 THEN Call("TrimSpace", <<SubSeq(s, 1, Len(s) - SpaceAtEnd(s))>>)
    ELSE s

\* the place after the bytes of s from k on that are in set, and after one
\* such byte
RECURSIVE RunEnd(_, _, _)
RunEnd(s, k, set) == IF k <= Len(s) /\ s[k] \in set THEN RunEnd(s, k + 1, set) ELSE k
Accept(s, k, set) == IF k <= Len(s) /\ s[k] \in set THEN k + 1 ELSE k
IndexByte(s, b) ==
    IF \E k \in 1..Len(s) : s[k] = b THEN CHOOSE k \in 1..Len(s) : s[k] = b /\ \A j \in 1..(k - 1) : s[j] # b
    ELSE 0

DecimalDigits == 48..57
SignBytes == {43, 45}

\* the number the decimal digits s[k..end-1] spell, -1 when it is beyond
\* MaxInt
RECURSIVE DigitsValue(_, _, _, _)
DigitsValue(s, k, end, acc) ==
    IF k >= end THEN acc
    ELSE IF acc > (MaxInt - 9) \div 10 THEN -1
    ELSE DigitsValue(s, k + 1, end, 10 * acc + s[k] - 48)

\* equal, letter case aside
EqualFold(s, t) == LowerBytes(s) = LowerBytes(t)

\* strconv.ParseFloat(s, 64): [ok, f], ok FALSE for a syntax error.  The
\* decimal form is read digit by digit: sign, digits, point, digits,
\* exponent; the value is NaF when it is no fraction of the model (so for
\* the infinities, for NaN, for a value out of range and for the
\* hexadecimal form, whose digits are not read)
ParsePlain(s) ==
    LET Bad == [ok |-> FALSE, f |-> Zero]
        Scaled(neg, m, scale) ==
            IF m = -1 THEN NaF
            ELSE IF m = 0 THEN WithSign(neg, Zero)
            ELSE IF scale >= 0
            THEN (IF scale <= 9 /\ Fits(m, Pow(10, scale))
                  THEN WithSign(neg, Call("Exact", <<m * Pow(10, scale), 1>>)) ELSE NaF)
            ELSE IF scale >= -9
            THEN (LET With(g) == WithSign(neg, Call("Exact", <<m \div g, Pow(10, -scale) \div g>>))
                  IN With(GCD(m, Pow(10, -scale))))
            ELSE NaF
        Exponent(neg, m, frac, k) ==
            \* k is the place after the mantissa
            IF k > Len(s) THEN [ok |-> TRUE, f |-> Scaled(neg, m, -frac)]
            ELSE IF s[k] \notin {101, 69} THEN Bad
            ELSE LET With(k0, k1) ==
                         IF k1 = k0 \/ k1 <= Len(s) THEN Bad
                         ELSE LET WithE(e) ==
                                      [ok |-> TRUE,
                                       f |-> IF e = -1 \/ e > 99 THEN NaF
                                             ELSE Scaled(neg, m, (IF s[k0 - 1] = 45 THEN -e ELSE e)
                                                                  - frac)]
                              IN WithE(DigitsValue(s, k0, k1, 0))
                 IN With(Accept(s, k + 1, SignBytes),
                         RunEnd(s, Accept(s, k + 1, SignBytes), DecimalDigits))
        Mantissa(i0) ==
            LET With(i1) ==
                    LET WithP(j0) ==
                            LET WithF(j1) ==
                                    IF (i1 - i0) + (j1 - j0) = 0 THEN Bad
                                    ELSE Exponent(s[1] = 45,
                                                  DigitsValue(SubSeq(s, i0, i1 - 1) \o SubSeq(s, j0, j1 - 1),
                                                              1, (i1 - i0) + (j1 - j0) + 1, 0),
                                                  j1 - j0, j1)
                            IN WithF(RunEnd(s, j0, DecimalDigits))
                    IN WithP(Accept(s, i1, {46}))
            IN With(RunEnd(s, i0, DecimalDigits))
    IN IF s = <<>> THEN Bad ELSE Mantissa(Accept(s, 1, SignBytes))

\* underscores between digits are skipped by the reader and judged
\* afterwards: a number with underscores in it is taken to be NaF
ParseDecimal(s) ==
    LET With(r) == IF r.ok THEN [ok |-> TRUE, f |-> NaF] ELSE r
    IN IF 95 \in {s[k] : k \in 1..Len(s)}
       THEN With(Call("ParsePlain", <<SelectSeq(s, LAMBDA b : b # 95)>>))
       ELSE Call("ParsePlain", <<s>>)

ParseFloatErr(s) ==
    LET Bare == IF s # <<>> /\ s[1] \in SignBytes THEN Tail(s) ELSE s
    IN IF \/ EqualFold(Bare, <<105, 110, 102>>)
          \/ EqualFold(Bare, <<105, 110, 102, 105, 110, 105, 116, 121>>)
          \/ EqualFold(s, <<110, 97, 110>>)
       THEN [ok |-> TRUE, f |-> NaF]
       ELSE IF Len(Bare) >= 2 /\ Bare[1] = 48 /\ Bare[2] \in {120, 88}
       THEN [ok |-> TRUE, f |-> NaF]
       ELSE Call("ParseDecimal", <<s>>)

\* the value of strconv.ParseFloat with the error dropped: 0 after a syntax
\* error
ParseFloat(s) == LET With(r) == IF r.ok THEN r.f ELSE Zero IN With(Call("ParseFloatErr", <<s>>))

\* strconv.ParseInt(s, 10, 64): [ok, n]; sign and digits, nothing else.  A
\* number beyond MaxInt is no number of the model: n is -1 and ok TRUE
ParseIntErr(s) ==
    LET With(i0) ==
            IF i0 > Len(s) \/ RunEnd(s, i0, DecimalDigits) <= Len(s)
            THEN [ok |-> FALSE, n |-> 0, beyond |-> FALSE]
            ELSE LET WithN(m) ==
                         [ok |-> TRUE, n |-> IF s[1] = 45 THEN -m ELSE m, beyond |-> m = -1]
                 IN WithN(DigitsValue(s, i0, Len(s) + 1, 0))
    IN With(Accept(s, 1, SignBytes))
ParseInt(s) == LET With(r) == IF r.ok /\ ~r.beyond THEN r.n ELSE 0 IN With(ParseIntErr(s))

\* math.Ldexp(f, m): f times the m-th power of two
Ldexp(f, m) ==
    IF IsNaF(f) \/ m > 29 \/ m < -27 THEN NaF
    ELSE IF m >= 0 THEN Call("Product", <<f, Float(Pow(2, m), 1)>>)
    ELSE Call("Product", <<f, [n |-> 1, d |-> Pow(2, -m)]>>)

\* fmt's floatToken: the place after the token at the head of s.  A NaN or
\* an Inf that is begun and not finished stays in the token
floatToken(s) ==
    LET Digit(hex) == IF hex THEN DecimalDigits \cup (97..102) \cup (65..70) \cup {95}
                      ELSE DecimalDigits \cup {95}
        Number(z, x) ==
            \* x > z: the prefix 0x was read
            LET With(d1) ==
                    LET WithP(pt) ==
                            LET WithF(d2) ==
                                    LET WithE(ex) ==
                                            IF ex > d2
                                            THEN RunEnd(s, Accept(s, ex, SignBytes),
                                                        DecimalDigits \cup {95})
                                            ELSE ex
                                    IN WithE(Accept(s, d2, IF x > z THEN {112, 80}
                                                           ELSE {101, 69, 112, 80}))
                            IN WithF(IF pt > d1 THEN RunEnd(s, pt, Digit(x > z)) ELSE pt)
                    IN WithP(Accept(s, d1, {46}))
            IN With(RunEnd(s, x, Digit(x > z)))
        Prefix(c0) ==
            LET With(z) == Number(z, IF z > c0 THEN Accept(s, z, {120, 88}) ELSE z)
            IN With(Accept(s, c0, {48}))
        Inf(b0) ==
            LET With(i1) ==
                    LET WithN(i2) ==
                            LET WithF(i3) ==
                                    IF i1 > b0 /\ i2 > i1 /\ i3 > i2 THEN i3 ELSE Prefix(i3)
                            IN WithF(IF i2 > i1 THEN Accept(s, i2, {102, 70}) ELSE i2)
                    IN WithN(IF i1 > b0 THEN Accept(s, i1, {110, 78}) ELSE i1)
            IN With(Accept(s, b0, {105, 73}))
        NaN(a1) ==
            LET WithA(a2) ==
                    LET WithN(a3) ==
                            IF a1 > 1 /\ a2 > a1 /\ a3 > a2 THEN a3
                            ELSE Inf(Accept(s, a3, SignBytes))
                    IN WithN(IF a2 > a1 THEN Accept(s, a2, {110, 78}) ELSE a2)
            IN WithA(IF a1 > 1 THEN Accept(s, a1, {97, 65}) ELSE a1)
    IN NaN(Accept(s, 1, {110, 78}))

\* fmt.Sscanf(s, "%f", &f) on a string without white space at its head,
\* f being 0 before: the f afterwards.  An empty token, a token that is no
\* number and a number with an exponent p that does not convert leave f
\* alone; what follows the token is not looked at
Sscanf(s) ==
    LET Converted(tok) ==
            LET WithP(p) ==
                    IF p > 0 /\ 120 \notin {tok[k] : k \in 1..Len(tok)}
                          /\ 88 \notin {tok[k] : k \in 1..Len(tok)}
                    THEN LET With(f, m) ==
                                 IF ~f.ok \/ ~m.ok THEN Zero
                                 ELSE IF m.beyond THEN NaF
                                 ELSE Ldexp(f.f, m.n)
                         IN With(Call("ParseFloatErr", <<SubSeq(tok, 1, p - 1)>>),
                                 ParseIntErr(SubSeq(tok, p + 1, Len(tok))))
                    ELSE Call("ParseFloat", <<tok>>)
            IN WithP(IndexByte(tok, 112))
    IN IF floatToken(s) = 1 THEN Zero
       ELSE Converted(SubSeq(s, 1, floatToken(s) - 1))

\* fmt.Sscanf(s, "%d", &n), n being 0 before: [n, err].  White space other
\* than a line feed is skipped, then a sign and the digits 0 to 9 are taken;
\* what follows is not looked at
ScanInt(s) ==
    LET With(k0) ==
            LET WithS(k1) ==
                    LET WithD(k2) ==
                            IF k2 = k1 THEN [n |-> 0, err |-> TRUE, beyond |-> FALSE]
                            ELSE LET WithN(r) ==
                                         [n |-> IF r.ok /\ ~r.beyond THEN r.n ELSE 0,
                                          err |-> ~r.ok, beyond |-> r.beyond]
                                 IN WithN(ParseIntErr(SubSeq(s, k0, k2 - 1)))
                    IN WithD(RunEnd(s, k1, DecimalDigits))
            IN WithS(Accept(s, k0, SignBytes))
    IN With(RunEnd(s, 1, {9, 11, 12, 13, 32}))

\* --------------------------------------------------------------------------
\* Printing a float64.  Decimal(f) is the decimal expansion of a fraction
\* other than zero: its significant digits and the place dp of the decimal
\* point, the value being 0.d1d2... times 10^dp.  The expansion of a
\* fraction of the model ends; when it has at most ShortestDigits digits it
\* is the shortest decimal that reads back as f, the one strconv prints
\* (decimals of up to 15 significant digits denote different float64s)
\* --------------------------------------------------------------------------
ShortestDigits == 15

\* the 1e15 of formatFloat: below it a float64 has at most 15 integer digits
MaxDigits == 15

RECURSIVE StripZerosRight(_)
StripZerosRight(ds) ==
    IF ds # <<>> /\ ds[Len(ds)] = 48 THEN StripZerosRight(Front(ds)) ELSE ds

Decimal(f) ==
    LET m == Magnitude(f)
        whole == m.n \div m.d
        frac == FractionDigits(m.n % m.d, m.d, 30)
        lead == RunEnd(frac, 1, {48}) - 1
    IN IF whole > 0
       THEN [digits |-> StripZerosRight(Digits(whole) \o frac), dp |-> Len(Digits(whole))]
       ELSE [digits |-> SubSeq(frac, lead + 1, Len(frac)), dp |-> -lead]

\* strconv's %e layout: d.ddd, the exponent letter, a sign, two digits or more
fmtE(neg, dec, letter) ==
    (IF neg THEN <<45>> ELSE <<>>)
    \o <<dec.digits[1]>>
    \o (IF Len(dec.digits) > 1 THEN <<46>> \o Tail(dec.digits) ELSE <<>>)
    \o <<letter, IF dec.dp - 1 < 0 THEN 45 ELSE 43>>
    \o (IF Abs(dec.dp - 1) < 10 THEN <<48>> ELSE <<>>) \o Digits(Abs(dec.dp - 1))

\* strconv's %f layout with as many decimals as there are digits
fmtF(neg, dec) ==
    (IF neg THEN <<45>> ELSE <<>>)
    \o (IF dec.dp > 0
        THEN [k \in 1..dec.dp |-> IF k <= Len(dec.digits) THEN dec.digits[k] ELSE 48]
        ELSE <<48>>)
    \o (IF Len(dec.digits) > dec.dp
        THEN <<46>> \o [k \in 1..(Len(dec.digits) - dec.dp) |->
                           IF dec.dp + k >= 1 THEN dec.digits[dec.dp + k] ELSE 48]
        ELSE <<>>)

\* strconv.FormatFloat(f, 'G', -1, 64) and fmt's %g: the shortest digits, in
\* the %e layout when the exponent is below -4 or at least 6
FormatG(f, letter) ==
    IF f.n = 0 THEN (IF f.d < 0 THEN <<45, 48>> ELSE <<48>>)
    ELSE LET With(dec) ==
                 IF dec.dp - 1 < -4 \/ dec.dp - 1 >= 6 THEN fmtE(f.n < 0, dec, letter)
                 ELSE fmtF(f.n < 0, dec)
         IN With(Call("Decimal", <<f>>))

\* formatFloat: a float64 equal to its int64 and below 1e15 in magnitude
\* prints as that integer; any other in the 'G' form
formatFloat(f) ==
    IF (f.n = 0 \/ f.d = 1) /\ Len(Digits(Abs(f.n))) <= MaxDigits THEN Call("FormatInt", <<f.n>>)
    ELSE Call("FormatG", <<f, 69>>)

\* whether the shortest digits of f are its exact expansion
Printed(f) == f.n = 0 \/ Len(Call("Decimal", <<f>>).digits) <= ShortestDigits

\* --------------------------------------------------------------------------
\* Values (tagged with their kind).  An INTEGER or LONG payload is an
\* integer; a SINGLE or DOUBLE payload is the float val/den; a string is
\* the sequence of its bytes
\* --------------------------------------------------------------------------
IntegerValue(v) == [type |-> "INTEGER", val |-> v]
LongValue(v) == [type |-> "LONG", val |-> v]
SingleValue(v) == [type |-> "SINGLE", val |-> v, den |-> 1]
DoubleValue(v) == [type |-> "DOUBLE", val |-> v, den |-> 1]
StringValue(v) == [type |-> "STRING", val |-> v]
NoValue == [type |-> "NIL", val |-> 0]

\* &DoubleValue{Val: f}, &SingleValue{Val: f}
DoubleOf(f) == [type |-> "DOUBLE", val |-> f.n, den |-> f.d]
SingleOf(f) == [type |-> "SINGLE", val |-> f.n, den |-> f.d]

DefaultValue(dt) ==
    CASE dt = "INTEGER" -> IntegerValue(0)
      [] dt = "LONG" -> LongValue(0)
      [] dt = "SINGLE" -> SingleValue(0)
      [] dt = "DOUBLE" -> DoubleValue(0)
      [] dt = "STRING" -> StringValue(<<>>)
      [] OTHER -> SingleValue(0)

\* Value.ToFloat: a string that is no number converts to 0
ToFloat(v) ==
    IF v.type = "STRING" THEN Call("ParseFloat", <<Call("TrimSpace", <<v.val>>)>>)
    ELSE IF v.type \in {"SINGLE", "DOUBLE"} THEN [n |-> v.val, d |-> v.den]
    ELSE [n |-> v.val, d |-> 1]

\* Value.ToBool
ToBool(v) == IF v.type = "STRING" THEN v.val # <<>> ELSE v.val # 0

\* Value.ToInt: a string that is no number converts to 0
ToInt(v) ==
    IF v.type = "STRING" THEN Call("ParseInt", <<Call("TrimSpace", <<v.val>>)>>)
    ELSE IF v.type \in {"SINGLE", "DOUBLE"} THEN Trunc([n |-> v.val, d |-> v.den])
    ELSE v.val

\* Value.ToString
ValueString(v) ==
    IF v.type = "STRING" THEN v.val
    ELSE IF v.type \in {"SINGLE", "DOUBLE"} THEN formatFloat([n |-> v.val, d |-> v.den])
    ELSE Call("FormatInt", <<v.val>>)

\* The values the model follows.  An integer is within MaxInt; a float is a
\* float64 of the model whose digits print exactly; a string has at most MaxString
\* bytes, and the numbers ToFloat and ToInt read in it are of the model
InModel(v) ==
    CASE v.type \in {"INTEGER", "LONG"} -> Abs(v.val) <= MaxInt
      [] v.type \in {"SINGLE", "DOUBLE"} ->
            Dyadic([n |-> v.val, d |-> v.den]) /\ Printed([n |-> v.val, d |-> v.den])
      [] v.type = "STRING" ->
            /\ Len(v.val) <= MaxString
            /\ ~IsNaF(Call("ParseFloat", <<Call("TrimSpace", <<v.val>>)>>))
            /\ ~ParseIntErr(Call("TrimSpace", <<v.val>>)).beyond
      [] OTHER -> TRUE

\* CoerceValue
CoerceValue(val, targetType) ==
    IF val.type = targetType THEN val
    ELSE CASE targetType = "INTEGER" -> IntegerValue(Int16(Call("ToInt", <<val>>)))
           [] targetType = "LONG" -> LongValue(Int32(Call("ToInt", <<val>>)))
           [] targetType = "SINGLE" -> SingleOf(Float32(Call("ToFloat", <<val>>)))
           [] targetType = "DOUBLE" -> DoubleOf(Call("ToFloat", <<val>>))
           [] targetType = "STRING" -> StringValue(Call("ValueString", <<val>>))
           [] OTHER -> val

\* PromoteType: STRING when either is; else the later in INTEGER, LONG,
\* SINGLE, DOUBLE, a type outside the four counting as before them all
PromoteType(t1, t2) ==
    LET order(t) == CASE t = "INTEGER" -> 1 [] t = "LONG" -> 2 [] t = "SINGLE" -> 3
                      [] t = "DOUBLE" -> 4 [] OTHER -> 0
    IN IF t1 = "STRING" \/ t2 = "STRING" THEN "STRING"
       ELSE IF order(t1) > order(t2) THEN t1 ELSE t2

boolToValue(b) == IF b THEN IntegerValue(-1) ELSE IntegerValue(0)

\* the order of Go strings: byte by byte
RECURSIVE StringLess(_, _)
StringLess(a, b) ==
    IF b = <<>> THEN FALSE
    ELSE IF a = <<>> THEN TRUE
    ELSE IF Head(a) # Head(b) THEN Head(a) < Head(b)
    ELSE StringLess(Tail(a), Tail(b))

\* Compare: -1, 0 or 1; two strings in the order of their bytes, every
\* other pair as numbers
Compare(a, b) ==
    IF a.type = "STRING" /\ b.type = "STRING"
    THEN (IF StringLess(a.val, b.val) THEN -1
          ELSE IF StringLess(b.val, a.val) THEN 1 ELSE 0)
    ELSE IF Call("Less", <<Call("ToFloat", <<a>>), Call("ToFloat", <<b>>)>>) THEN -1
    ELSE IF Call("Less", <<Call("ToFloat", <<b>>), Call("ToFloat", <<a>>)>>) THEN 1 ELSE 0

\* --------------------------------------------------------------------------
\* Environment
\* --------------------------------------------------------------------------
NewEnvironment ==
    [variables |-> EmptyMap, arrays |-> EmptyMap, constants |-> EmptyMap,
     parent |-> Nil, shared |-> Nil]

NewEnclosedEnvironment(outer) ==
    [NewEnvironment EXCEPT !.parent = outer, !.shared = outer]

\* inferType: the kind named by the suffix, SINGLE without one
inferType(name) ==
    IF name = "" THEN "SINGLE"
    ELSE CASE CharAt(name, Len(name)) = "%" -> "INTEGER"
           [] CharAt(name, Len(name)) = "&" -> "LONG"
           [] CharAt(name, Len(name)) = "!" -> "SINGLE"
           [] CharAt(name, Len(name)) = "#" -> "DOUBLE"
           [] CharAt(name, Len(name)) = "$" -> "STRING"
           [] OTHER -> "SINGLE"

\* Environment.Get: constants, then variables, then the parent chain.
\* The result is [ok, val].
EnvGet(h, e, name) ==
    LET n == Call("ToUpper", <<name>>) IN
    IF n \in DOMAIN h[e].constants THEN [ok |-> TRUE, val |-> h[e].constants[n]]
    ELSE IF n \in DOMAIN h[e].variables THEN [ok |-> TRUE, val |-> h[e].variables[n]]
    ELSE IF h[e].parent # Nil THEN Call("EnvGet", <<h, h[e].parent, n>>)
    ELSE [ok |-> FALSE, val |-> NoValue]

\* Environment.Set: a constant of this scope is left alone, otherwise the
\* name is bound in this scope.  The result is the new heap.
EnvSet(h, e, name, val) ==
    LET n == Call("ToUpper", <<name>>) IN
    IF n \in DOMAIN h[e].constants THEN h
    ELSE [h EXCEPT ![e].variables = (n :> val) @@ h[e].variables]

\* Environment.GetOrCreate: the result is [val, heap]
GetOrCreate(h, e, name, dt) ==
    LET n == Call("ToUpper", <<name>>)
        d == IF dt = "UNKNOWN" THEN inferType(n) ELSE dt
        With(got) ==
            IF got.ok THEN [val |-> got.val, heap |-> h]
            ELSE [val |-> DefaultValue(d), heap |-> EnvSet(h, e, n, DefaultValue(d))]
    IN With(Call("EnvGet", <<h, e, n>>))

\* Environment.GetArray: this scope, then the parent chain
GetArray(h, e, name) ==
    LET n == Call("ToUpper", <<name>>) IN
    IF n \in DOMAIN h[e].arrays THEN [ok |-> TRUE, arr |-> h[e].arrays[n]]
    ELSE IF h[e].parent # Nil THEN Call("GetArray", <<h, h[e].parent, n>>)
    ELSE [ok |-> FALSE, arr |-> Nil]

\* the scope whose arrays map holds the *Array that GetArray returns (Nil
\* when there is none): the array is a shared object, and a store through
\* the pointer is seen wherever that map entry is read
RECURSIVE ArrayOwner(_, _, _)
ArrayOwner(h, e, name) ==
    LET n == Call("ToUpper", <<name>>) IN
    IF n \in DOMAIN h[e].arrays THEN e
    ELSE IF h[e].parent # Nil THEN ArrayOwner(h, h[e].parent, n)
    ELSE Nil

\* Environment.DefineConst: [err, heap]
DefineConst(h, e, name, val) ==
    LET n == Call("ToUpper", <<name>>) IN
    IF n \in DOMAIN h[e].constants
    THEN [err |-> "constant " \o n \o " already defined", heap |-> h]
    ELSE [err |-> "", heap |-> [h EXCEPT ![e].constants = (n :> val) @@ h[e].constants]]

\* --------------------------------------------------------------------------
\* Arrays.  Data is indexed from 1 here: Data[k + 1] is Go's Data[k].
\* --------------------------------------------------------------------------
ArrayDimension(lower, upper) == [Lower |-> lower, Upper |-> upper]

\* the size loop of NewArray
RECURSIVE SizeOf(_, _)
SizeOf(dims, k) ==
    IF k > Len(dims) THEN 1
    ELSE (dims[k].Upper - dims[k].Lower + 1) * SizeOf(dims, k + 1)

\* NewArray, when make([]Value, size) returns: size is not negative
NewArray(dt, dims) ==
    [DataType |-> dt, Dimensions |-> dims,
     Data |-> [k \in 1..SizeOf(dims, 1) |-> DefaultValue(dt)]]

\* the loop of Array.GetIndex, from the last dimension to the first
RECURSIVE GetIndexFrom(_, _, _, _, _)
GetIndexFrom(a, subscripts, i, index, multiplier) ==
    IF i < 1 THEN [ok |-> TRUE, index |-> index]
    ELSE IF \/ subscripts[i] < a.Dimensions[i].Lower
            \/ subscripts[i] > a.Dimensions[i].Upper
    THEN [ok |-> FALSE, index |-> 0]
    ELSE GetIndexFrom(a, subscripts, i - 1,
                      index + (subscripts[i] - a.Dimensions[i].Lower) * multiplier,
                      multiplier * (a.Dimensions[i].Upper - a.Dimensions[i].Lower + 1))

\* GetIndex with the leftmost subscript running fastest: the row-major order
\* of C13 does not survive it
RECURSIVE LeftmostFastestFrom(_, _, _, _, _)
LeftmostFastestFrom(a, subscripts, i, index, multiplier) ==
    IF i > Len(a.Dimensions) THEN [ok |-> TRUE, index |-> index]
    ELSE IF \/ subscripts[i] < a.Dimensions[i].Lower
            \/ subscripts[i] > a.Dimensions[i].Upper
    THEN [ok |-> FALSE, index |-> 0]
    ELSE LeftmostFastestFrom(a, subscripts, i + 1,
                      index + (subscripts[i] - a.Dimensions[i].Lower) * multiplier,
                      multiplier * (a.Dimensions[i].Upper - a.Dimensions[i].Lower + 1))
GetIndexLeftmostFastest(a, subscripts) ==
    IF Len(subscripts) # Len(a.Dimensions) THEN [ok |-> FALSE, index |-> 0]
    ELSE LeftmostFastestFrom(a, subscripts, 1, 0, 1)

\* the error of Array.GetIndex on subscripts it refuses
IndexError(a, subscripts) ==
    LET Off(i) == \/ subscripts[i] < a.Dimensions[i].Lower
                  \/ subscripts[i] > a.Dimensions[i].Upper
        Range(i) ==
            "subscript out of range: " \o Call("IntText", <<subscripts[i]>>) \o " not in ["
            \o Call("IntText", <<a.Dimensions[i].Lower>>) \o ", " \o Call("IntText", <<a.Dimensions[i].Upper>>) \o "]"
    IN IF Len(subscripts) # Len(a.Dimensions)
       THEN "wrong number of dimensions: expected " \o Call("IntText", <<Len(a.Dimensions)>>)
            \o ", got " \o Call("IntText", <<Len(subscripts)>>)
       ELSE Range(CHOOSE i \in 1..Len(subscripts) :
                      Off(i) /\ \A j \in (i + 1)..Len(subscripts) : ~Off(j))

\* Array.GetIndex: [ok, index], index counted from 0 as in Go
GetIndex(a, subscripts) ==
    IF Len(subscripts) # Len(a.Dimensions) THEN [ok |-> FALSE, index |-> 0]
    ELSE GetIndexFrom(a, subscripts, Len(a.Dimensions), 0, 1)

\* Array.Get: [ok, val]
ArrayGet(a, subscripts) ==
    LET With(at) ==
            IF at.ok THEN [ok |-> TRUE, val |-> a.Data[at.index + 1]]
            ELSE [ok |-> FALSE, val |-> NoValue]
    IN With(GetIndex(a, subscripts))

\* Array.Set: [ok, arr]; the value is stored as it is
ArraySet(a, subscripts, value) ==
    LET With(at) ==
            IF at.ok THEN [ok |-> TRUE, arr |-> [a EXCEPT !.Data[at.index + 1] = value]]
            ELSE [ok |-> FALSE, arr |-> a]
    IN With(GetIndex(a, subscripts))

\* the dims loop of Environment.DeclareArray
Bounds(dims) == [k \in 1..Len(dims) |-> ArrayDimension(0, dims[k])]

\* the arrays the model follows have at most MaxRank dimensions and
\* MaxCells elements
DeclareBeyond(dims) ==
    \/ Len(dims) > MaxRank
    \/ \E k \in 1..Len(dims) : Abs(dims[k] + 1) > MaxCells
    \/ SizeOf(Bounds(dims), 1) > MaxCells

\* whether NewArray panics on these upper bounds: make([]Value, size) with a
\* negative size
DeclarePanics(dims) == SizeOf(Bounds(dims), 1) < 0

\* Environment.DeclareArray: a new array in this scope; the result is the heap
DeclareArray(h, e, name, dt, dims) ==
    [h EXCEPT ![e].arrays = (Call("ToUpper", <<name>>) :> NewArray(dt, Bounds(dims))) @@ h[e].arrays]

\* a store through the *Array that GetArray(h, e, name) returned
StoreArray(h, e, name, arr) ==
    LET With(owner) == [h EXCEPT ![owner].arrays[Call("ToUpper", <<name>>)] = arr]
    IN With(ArrayOwner(h, e, name))

\* --------------------------------------------------------------------------
\* AST nodes (package ast).  Every statement carries its source Line.
\* --------------------------------------------------------------------------
IntegerLiteral(v) == [node |-> "IntegerLiteral", Value |-> v]
FloatLiteral(lit, n, d) ==
    [node |-> "FloatLiteral", Line |-> 0, Value |-> Float(n, d), TokenLiteral |-> lit]
Identifier(name) ==
    [node |-> "Identifier", Name |-> name, TypeHint |-> SuffixType(name)]
\* &ast.Identifier{Line: ..., Name: ...}, as parseIdentifierStatement and
\* parseForStatement build the target: the TypeHint is the zero value
PlainIdentifier(name) == [node |-> "Identifier", Name |-> name, TypeHint |-> "UNKNOWN"]
BinaryExpr(op, l, r) == [node |-> "BinaryExpr", Operator |-> op, Left |-> l, Right |-> r]
CallExpr(fn, args) == [node |-> "CallExpr", Function |-> fn, Arguments |-> args]
NoExpr == [node |-> "nil"]
UnaryExpr(op, r) == [node |-> "UnaryExpr", Operator |-> op, Right |-> r]
GroupedExpr(e) == [node |-> "GroupedExpr", Expression |-> e]
ArrayAccess(name, indices) == [node |-> "ArrayAccess", Name |-> name, Indices |-> indices]
StringLiteral(v) == [node |-> "StringLiteral", Value |-> v, TokenLiteral |-> v]

LineNumberStmt(line, n) == [type |-> "LineNumberStmt", Line |-> line, Number |-> n]
LabelStmt(line, name) == [type |-> "LabelStmt", Line |-> line, Name |-> name]
LetTarget(line, target, value) ==
    [type |-> "LetStmt", Line |-> line, Name |-> target, Value |-> value]
LetStmt(line, name, value) == LetTarget(line, PlainIdentifier(name), value)
RemStmt(line) == [type |-> "RemStmt", Line |-> line]
DataStmt(line, values) == [type |-> "DataStmt", Line |-> line, Values |-> values]
EndStmt(line) == [type |-> "EndStmt", Line |-> line]
GotoStmt(line, target) == [type |-> "GotoStmt", Line |-> line, Target |-> target]
GosubStmt(line, target) == [type |-> "GosubStmt", Line |-> line, Target |-> target]
ReturnStmt(line, value) == [type |-> "ReturnStmt", Line |-> line, Value |-> value]
ExitStmt(line, exitType) == [type |-> "ExitStmt", Line |-> line, ExitType |-> exitType]
\* (TokenLiteral, the name again, tells the record from a LetStmt, whose Name
\* is an expression)
SubCallStmt(line, name, args) ==
    [type |-> "SubCallStmt", Line |-> line, Name |-> name, Arguments |-> args,
     TokenLiteral |-> name]
IfStmt(line, cond, conseq, alt) ==
    [type |-> "IfStmt", Line |-> line, Condition |-> cond,
     Consequence |-> conseq, Alternative |-> alt]
ForStmt(line, name, start, end, step, body) ==
    [type |-> "ForStmt", Line |-> line, Variable |-> PlainIdentifier(name),
     Start |-> start, End |-> end, Step |-> step, Body |-> body]
WhileStmt(line, cond, body) ==
    [type |-> "WhileStmt", Line |-> line, Condition |-> cond, Body |-> body]
DoLoopStmt(line, cond, pos, ctype, body) ==
    [type |-> "DoLoopStmt", Line |-> line, Condition |-> cond,
     ConditionPos |-> pos, ConditionType |-> ctype, Body |-> body]
CaseValue(ctype, op, value, endValue) ==
    [Type |-> ctype, Operator |-> op, Value |-> value, EndValue |-> endValue]
CaseClause(values, body) == [Values |-> values, Body |-> body]
SelectCaseStmt(line, expr, cases, caseElse) ==
    [type |-> "SelectCaseStmt", Line |-> line, Expression |-> expr,
     Cases |-> cases, CaseElse |-> caseElse]
LetElement(line, name, indices, value) ==
    LetTarget(line, CallExpr(name, indices), value)
DimVariable(name, dims) == [Name |-> name, Dimensions |-> dims, DataType |-> "UNKNOWN"]
DimStmt(line, variables, shared) ==
    [type |-> "DimStmt", Line |-> line, Variables |-> variables, Shared |-> shared,
     Static |-> FALSE]
RedimStmt(line, preserve, variables) ==
    [type |-> "RedimStmt", Line |-> line, Preserve |-> preserve, Variables |-> variables]
\* (TokenLiteral tells the record from a LetStmt, whose Name is an expression)
ConstStmt(line, name, value) ==
    [type |-> "ConstStmt", Line |-> line, Name |-> name, Value |-> value,
     TokenLiteral |-> "CONST"]
ReadStmt(line, variables) == [type |-> "ReadStmt", Line |-> line, Variables |-> variables]
RestoreStmt(line, target) == [type |-> "RestoreStmt", Line |-> line, Target |-> target]
OpenStmt(line, filename, mode, fileNum) ==
    [type |-> "OpenStmt", Line |-> line, Filename |-> filename, Mode |-> mode,
     FileNum |-> fileNum, RecLen |-> NoExpr]
CloseStmt(line, fileNums) == [type |-> "CloseStmt", Line |-> line, FileNums |-> fileNums]
PrintItem(expr, sep) == [Expression |-> expr, Separator |-> sep]
PrintFileStmt(line, fileNum, items, noNewline) ==
    [type |-> "PrintFileStmt", Line |-> line, FileNum |-> fileNum, Items |-> items,
     NoNewline |-> noNewline]
LineInputFileStmt(line, fileNum, variable) ==
    [type |-> "LineInputFileStmt", Line |-> line, FileNum |-> fileNum,
     Variable |-> variable]
GetStmt(line, fileNum, position, variable) ==
    [type |-> "GetStmt", Line |-> line, FileNum |-> fileNum, Position |-> position,
     Variable |-> variable]
PutStmt(line, fileNum, position, variable) ==
    [type |-> "PutStmt", Line |-> line, FileNum |-> fileNum, Position |-> position,
     Variable |-> variable]
SeekStmt(line, fileNum, position) ==
    [type |-> "SeekStmt", Line |-> line, FileNum |-> fileNum, Position |-> position]
SwapStmt(line, var1, var2) ==
    [type |-> "SwapStmt", Line |-> line, Var1 |-> var1, Var2 |-> var2]
Parameter(name) == [Name |-> name, DataType |-> SuffixType(name)]
SubStatement(line, name, params, body) ==
    [type |-> "SubStatement", Line |-> line, Name |-> name,
     Parameters |-> params, Body |-> body]
FuncStatement(line, name, params, body) ==
    [type |-> "FuncStatement", Line |-> line, Name |-> name, Parameters |-> params,
     ReturnType |-> SuffixType(name), Body |-> body]
PrintStmt(line, items, noNewline) ==
    [type |-> "PrintStmt", Line |-> line, Items |-> items, NoNewline |-> noNewline]
PrintUsingStmt(line, fileNum, format, items, noNewline) ==
    [type |-> "PrintUsingStmt", Line |-> line, FileNum |-> fileNum, Format |-> format,
     Items |-> items, NoNewline |-> noNewline]
InputStmt(line, prompt, variables) ==
    [type |-> "InputStmt", Line |-> line, Prompt |-> prompt, Variables |-> variables]
InputFileStmt(line, fileNum, variables) ==
    [type |-> "InputFileStmt", Line |-> line, FileNum |-> fileNum, Variables |-> variables]
LineInputStmt(line, prompt, variable) ==
    [type |-> "LineInputStmt", Line |-> line, Prompt |-> prompt, Variable |-> variable]
ClsStmt(line) == [type |-> "ClsStmt", Line |-> line]
BeepStmt(line) == [type |-> "BeepStmt", Line |-> line]
LocateStmt(line, row, column) ==
    [type |-> "LocateStmt", Line |-> line, Row |-> row, Column |-> column]
ColorStmt(line, fg, bg) ==
    [type |-> "ColorStmt", Line |-> line, Foreground |-> fg, Background |-> bg]
ScreenStmt(line, mode) == [type |-> "ScreenStmt", Line |-> line, Mode |-> mode]
SleepStmt(line, seconds) == [type |-> "SleepStmt", Line |-> line, Seconds |-> seconds]
RandomizeStmt(line, seed) == [type |-> "RandomizeStmt", Line |-> line, Seed |-> seed]
CallStmt(line, name, args) ==
    [type |-> "CallStmt", Line |-> line, Name |-> name, Arguments |-> args]
OnGotoStmt(line, expr, targets) ==
    [type |-> "OnGotoStmt", Line |-> line, Expression |-> expr, Targets |-> targets]
OnGosubStmt(line, expr, targets) ==
    [type |-> "OnGosubStmt", Line |-> line, Expression |-> expr, Targets |-> targets]
PsetStmt(line, x, y, color) ==
    [type |-> "PsetStmt", Line |-> line, X |-> x, Y |-> y, Color |-> color]
\* (corners is <<X1, Y1, X2, Y2>>)
LineGraphicsStmt(line, corners, color, boxFill) ==
    [type |-> "LineGraphicsStmt", Line |-> line, X1 |-> corners[1], Y1 |-> corners[2],
     X2 |-> corners[3], Y2 |-> corners[4], Color |-> color, BoxFill |-> boxFill]
CircleStmt(line, x, y, radius, color) ==
    [type |-> "CircleStmt", Line |-> line, X |-> x, Y |-> y, Radius |-> radius,
     Color |-> color]

\* --------------------------------------------------------------------------
\* The error value a function returns: nil, an error, or an *ExitError.  Two
\* more outcomes are no return at all: a run-time panic of Go, which nothing
\* in the program recovers, and a computation that leaves the values of the
\* model
\* --------------------------------------------------------------------------
NoSignal == [kind |-> "nil", what |-> ""]
ErrorOf(msg) == [kind |-> "error", what |-> msg]
ExitError(exitType) == [kind |-> "exit", what |-> exitType]
Panic(msg) == [kind |-> "panic", what |-> msg]
Beyond == [kind |-> "beyond", what |-> ""]

\* panic: integer divide by zero, and make([]Value, size) with a negative size
DividePanic == "panic: runtime error: integer divide by zero"
MakeslicePanic == "panic: runtime error: makeslice: len out of range"

\* The interpreter as one record, so that the functions of the Go code are
\* functions on it: the fields of Interpreter, the activations below Run,
\* the histories, the host, and the value a callFunction activation hands
\* back; allocs counts the arrays made during one statement, closed lists
\* the file handles closed during it
Interp(e, h, st, gs, sig, res, cl, fs, dk, tr, rec, hst) ==
    [env |-> e, heap |-> h, state |-> st, goStack |-> gs, signal |-> sig,
     result |-> res, calls |-> cl, files |-> fs, disk |-> dk, trace |-> tr,
     recording |-> rec, host |-> hst, value |-> NoValue, allocs |-> 0, closed |-> <<>>]

\* what evaluate returns: (Value, error), and the interpreter afterwards
Ok(v, S) == [val |-> v, sig |-> NoSignal, S |-> S]
Fail(sig, S) == [val |-> NoValue, sig |-> sig, S |-> S]
Err(msg, S) == Fail(ErrorOf(msg), S)
\* a value that the model does not follow ends the computation
Checked(r) == IF r.sig = NoSignal /\ ~InModel(r.val) THEN Fail(Beyond, r.S) ELSE r

\* --------------------------------------------------------------------------
\* internal/builtins.  A function of the registry returns [val, sig]
\* --------------------------------------------------------------------------
Given(v) == [val |-> v, sig |-> NoSignal]
Refused(msg) == [val |-> NoValue, sig |-> ErrorOf(msg)]
Outside == [val |-> NoValue, sig |-> Beyond]
IllegalCall == Refused("illegal function call")
\* a float64 result
GivenFloat(f) == IF IsNaF(f) THEN Outside ELSE Given(DoubleOf(f))

\* builtins' Value.ToString: a float prints with %g, and a float32 with the
\* shortest digits that read back as the same float32, which are the digits
\* of its fraction when there are at most six
BuiltinString(v) ==
    IF v.type = "STRING" THEN v.val
    ELSE IF v.type \in {"SINGLE", "DOUBLE"} THEN Call("FormatG", <<Call("ToFloat", <<v>>), 101>>)
    ELSE Call("FormatInt", <<v.val>>)
Stringable(v) ==
    v.type # "SINGLE" \/ v.val = 0 \/ Len(Call("Decimal", <<Call("ToFloat", <<v>>)>>).digits) <= 6

\* strings.Repeat
Repeat(ch, n) == [k \in 1..(n * Len(ch)) |-> ch[((k - 1) % Len(ch)) + 1]]

\* strings.Index: the place of the first s2 in s1 counted from 0, -1 for none
Index(s1, s2) ==
    LET At(k) == SubSeq(s1, k + 1, k + Len(s2)) = s2
        Places == {k \in 0..(Len(s1) - Len(s2)) : At(k)}
    IN IF Places = {} THEN -1 ELSE CHOOSE k \in Places : \A j \in Places : k <= j

\* strings.TrimLeft(s, cutset) and strings.TrimRight(s, cutset), the cutset
\* being ASCII
TrimLeft(s, cutset) == SubSeq(s, RunEnd(s, 1, cutset), Len(s))
RECURSIVE TrimRight(_, _)
TrimRight(s, cutset) ==
    IF s # <<>> /\ Last(s) \in cutset THEN TrimRight(Front(s), cutset) ELSE s

\* string(rune(n)): the UTF-8 encoding of the code point n, 0 <= n <= 255
RuneString(n) == IF n < 128 THEN <<n>> ELSE <<192 + (n \div 64), 128 + (n % 64)>>

\* fmt.Sprintf("%X") and ("%o") of an int64
RECURSIVE DigitsIn(_, _)
DigitsIn(n, base) ==
    LET Digit(d) == IF d < 10 THEN 48 + d ELSE 55 + d
    IN IF n < base THEN <<Digit(n)>> ELSE DigitsIn(n \div base, base) \o <<Digit(n % base)>>
FormatBase(n, base) == IF n < 0 THEN <<45>> \o DigitsIn(-n, base) ELSE DigitsIn(n, base)

\* the whole square root of n
RECURSIVE RootBetween(_, _, _)
RootBetween(n, lo, hi) ==
    IF lo >= hi THEN lo
    ELSE LET With(mid) == IF mid * mid <= n THEN RootBetween(n, mid, hi)
                          ELSE RootBetween(n, lo, mid - 1)
         IN With((lo + hi + 1) \div 2)
Root(n) == RootBetween(n, 0, Least(n, 32767))

\* math.Sqrt where it is exact
Sqrt(f) ==
    IF ~Dyadic(f) THEN NaF
    ELSE IF f.n = 0 THEN f
    ELSE IF Root(f.n) * Root(f.n) = f.n /\ Root(f.d) * Root(f.d) = f.d
    THEN [n |-> Root(f.n), d |-> Root(f.d)]
    ELSE NaF

fnLen(args) ==
    IF Len(args) < 1 THEN Refused("LEN requires 1 argument")
    ELSE IF ~Call("Stringable", <<args[1]>>) THEN Outside
    ELSE Given(LongValue(Len(Call("BuiltinString", <<args[1]>>))))

fnLeft(args) ==
    LET With(s, n) ==
            IF n < 0 THEN IllegalCall
            ELSE Given(StringValue(SubSeq(s, 1, Least(n, Len(s)))))
    IN IF Len(args) < 2 THEN Refused("LEFT$ requires 2 arguments")
       ELSE IF ~Call("Stringable", <<args[1]>>) THEN Outside
       ELSE With(Call("BuiltinString", <<args[1]>>), Call("ToInt", <<args[2]>>))

fnRight(args) ==
    LET With(s, n) ==
            IF n < 0 THEN IllegalCall
            ELSE Given(StringValue(SubSeq(s, Len(s) - Least(n, Len(s)) + 1, Len(s))))
    IN IF Len(args) < 2 THEN Refused("RIGHT$ requires 2 arguments")
       ELSE IF ~Call("Stringable", <<args[1]>>) THEN Outside
       ELSE With(Call("BuiltinString", <<args[1]>>), Call("ToInt", <<args[2]>>))

fnMid(args) ==
    LET Cut(s, start, length) ==
            IF length < 0 THEN IllegalCall
            ELSE Given(StringValue(SubSeq(s, start + 1, Least(start + length, Len(s)))))
        With(s, start) ==
            IF start < 0 THEN IllegalCall
            ELSE IF start >= Len(s) THEN Given(StringValue(<<>>))
            ELSE Cut(s, start, IF Len(args) >= 3 THEN Call("ToInt", <<args[3]>>) ELSE Len(s) - start)
    IN IF Len(args) < 2 THEN Refused("MID$ requires at least 2 arguments")
       ELSE IF ~Call("Stringable", <<args[1]>>) THEN Outside
       ELSE With(Call("BuiltinString", <<args[1]>>), Call("ToInt", <<args[2]>>) - 1)

fnInstr(args) ==
    LET Found(idx, start) ==
            IF idx = -1 THEN Given(LongValue(0)) ELSE Given(LongValue(idx + start + 1))
        With(start, s1, s2) ==
            IF start < 0 THEN IllegalCall
            ELSE IF start >= Len(s1) THEN Given(LongValue(0))
            ELSE Found(Index(SubSeq(s1, start + 1, Len(s1)), s2), start)
    IN IF Len(args) = 2
       THEN (IF ~Call("Stringable", <<args[1]>>) \/ ~Call("Stringable", <<args[2]>>) THEN Outside
             ELSE With(0, Call("BuiltinString", <<args[1]>>), Call("BuiltinString", <<args[2]>>)))
       ELSE IF Len(args) >= 3
       THEN (IF ~Call("Stringable", <<args[2]>>) \/ ~Call("Stringable", <<args[3]>>) THEN Outside
             ELSE With(Call("ToInt", <<args[1]>>) - 1, Call("BuiltinString", <<args[2]>>), Call("BuiltinString", <<args[3]>>)))
       ELSE Refused("INSTR requires 2 or 3 arguments")

\* strings.ToUpper and strings.ToLower map the letters of Unicode; the model
\* follows them on ASCII
fnUCase(args) ==
    IF Len(args) < 1 THEN Refused("UCASE$ requires 1 argument")
    ELSE IF ~Call("Stringable", <<args[1]>>) \/ ~Ascii(Call("BuiltinString", <<args[1]>>)) THEN Outside
    ELSE Given(StringValue(UpperBytes(Call("BuiltinString", <<args[1]>>))))

fnLCase(args) ==
    IF Len(args) < 1 THEN Refused("LCASE$ requires 1 argument")
    ELSE IF ~Call("Stringable", <<args[1]>>) \/ ~Ascii(Call("BuiltinString", <<args[1]>>)) THEN Outside
    ELSE Given(StringValue(LowerBytes(Call("BuiltinString", <<args[1]>>))))

fnStr(args) ==
    IF Len(args) < 1 THEN Refused("STR$ requires 1 argument")
    ELSE IF ~Call("Stringable", <<args[1]>>) THEN Outside
    ELSE Given(StringValue((IF ~Call("Less", <<Call("ToFloat", <<args[1]>>), Zero>>) THEN <<32>> ELSE <<>>)
                           \o Call("BuiltinString", <<args[1]>>)))

fnVal(args) ==
    IF Len(args) < 1 THEN Refused("VAL requires 1 argument")
    ELSE IF ~Call("Stringable", <<args[1]>>) THEN Outside
    ELSE GivenFloat(Call("ParseFloat", <<Call("TrimSpace", <<Call("BuiltinString", <<args[1]>>)>>)>>))

fnChr(args) ==
    IF Len(args) < 1 THEN Refused("CHR$ requires 1 argument")
    ELSE IF Call("ToInt", <<args[1]>>) < 0 \/ Call("ToInt", <<args[1]>>) > 255 THEN IllegalCall
    ELSE Given(StringValue(RuneString(Call("ToInt", <<args[1]>>))))

fnAsc(args) ==
    IF Len(args) < 1 THEN Refused("ASC requires 1 argument")
    ELSE IF ~Call("Stringable", <<args[1]>>) THEN Outside
    ELSE IF Len(Call("BuiltinString", <<args[1]>>)) = 0 THEN IllegalCall
    ELSE Given(LongValue(Call("BuiltinString", <<args[1]>>)[1]))

\* string(s[0]) is the conversion of a byte to a string: the UTF-8 encoding
\* of the code point with that number
fnString(args) ==
    LET Repeated(ch, n) ==
            IF n * Len(ch) > MaxString THEN Outside ELSE Given(StringValue(Repeat(ch, n)))
        With(n) ==
            IF n < 0 THEN IllegalCall
            ELSE IF args[2].type = "STRING"
            THEN Repeated(IF Len(args[2].val) > 0 THEN RuneString(args[2].val[1]) ELSE <<32>>, n)
            ELSE IF Call("ToInt", <<args[2]>>) < 0 \/ Call("ToInt", <<args[2]>>) > 255 THEN IllegalCall
            ELSE Repeated(RuneString(Call("ToInt", <<args[2]>>)), n)
    IN IF Len(args) < 2 THEN Refused("STRING$ requires 2 arguments")
       ELSE With(Call("ToInt", <<args[1]>>))

\* strings.Repeat(" ", n), 0 <= n
Spaces(n) == IF n > MaxString THEN Outside ELSE Given(StringValue([k \in 1..n |-> 32]))

fnSpace(args) ==
    IF Len(args) < 1 THEN Refused("SPACE$ requires 1 argument")
    ELSE IF Call("ToInt", <<args[1]>>) < 0 THEN IllegalCall
    ELSE Spaces(Call("ToInt", <<args[1]>>))

fnLTrim(args) ==
    IF Len(args) < 1 THEN Refused("LTRIM$ requires 1 argument")
    ELSE IF ~Call("Stringable", <<args[1]>>) THEN Outside
    ELSE Given(StringValue(TrimLeft(Call("BuiltinString", <<args[1]>>), {32})))

fnRTrim(args) ==
    IF Len(args) < 1 THEN Refused("RTRIM$ requires 1 argument")
    ELSE IF ~Call("Stringable", <<args[1]>>) THEN Outside
    ELSE Given(StringValue(TrimRight(Call("BuiltinString", <<args[1]>>), {32})))

fnTrim(args) ==
    IF Len(args) < 1 THEN Refused("TRIM$ requires 1 argument")
    ELSE IF ~Call("Stringable", <<args[1]>>) THEN Outside
    ELSE Given(StringValue(Call("TrimSpace", <<Call("BuiltinString", <<args[1]>>)>>)))

fnAbs(args) ==
    IF Len(args) < 1 THEN Refused("ABS requires 1 argument")
    ELSE GivenFloat(FAbs(Call("ToFloat", <<args[1]>>)))

fnSgn(args) ==
    IF Len(args) < 1 THEN Refused("SGN requires 1 argument")
    ELSE IF Call("Less", <<Zero, Call("ToFloat", <<args[1]>>)>>) THEN Given(IntegerValue(1))
    ELSE IF Call("Less", <<Call("ToFloat", <<args[1]>>), Zero>>) THEN Given(IntegerValue(-1))
    ELSE Given(IntegerValue(0))

fnInt(args) ==
    IF Len(args) < 1 THEN Refused("INT requires 1 argument")
    ELSE GivenFloat(Floor(Call("ToFloat", <<args[1]>>)))

fnFix(args) ==
    IF Len(args) < 1 THEN Refused("FIX requires 1 argument")
    ELSE GivenFloat(FTrunc(Call("ToFloat", <<args[1]>>)))

fnSqr(args) ==
    IF Len(args) < 1 THEN Refused("SQR requires 1 argument")
    ELSE IF Call("Less", <<Call("ToFloat", <<args[1]>>), Zero>>) THEN IllegalCall
    ELSE GivenFloat(Sqrt(Call("ToFloat", <<args[1]>>)))

\* math.Sin, math.Tan and math.Atan give a zero back; every other value of
\* theirs is outside the fractions of the model
ZeroOnly(f) == IF f.n = 0 /\ ~IsNaF(f) THEN f ELSE NaF

fnSin(args) ==
    IF Len(args) < 1 THEN Refused("SIN requires 1 argument")
    ELSE GivenFloat(ZeroOnly(Call("ToFloat", <<args[1]>>)))

\* math.Cos(0) and math.Exp(0) are 1
OneAtZero(f) == IF f.n = 0 /\ ~IsNaF(f) THEN Float(1, 1) ELSE NaF

fnCos(args) ==
    IF Len(args) < 1 THEN Refused("COS requires 1 argument")
    ELSE GivenFloat(OneAtZero(Call("ToFloat", <<args[1]>>)))

fnTan(args) ==
    IF Len(args) < 1 THEN Refused("TAN requires 1 argument")
    ELSE GivenFloat(ZeroOnly(Call("ToFloat", <<args[1]>>)))

fnAtn(args) ==
    IF Len(args) < 1 THEN Refused("ATN requires 1 argument")
    ELSE GivenFloat(ZeroOnly(Call("ToFloat", <<args[1]>>)))

\* math.Log(1) is 0
fnLog(args) ==
    IF Len(args) < 1 THEN Refused("LOG requires 1 argument")
    ELSE IF ~Call("Less", <<Zero, Call("ToFloat", <<args[1]>>)>>) THEN IllegalCall
    ELSE GivenFloat(IF Call("ToFloat", <<args[1]>>) = Float(1, 1) THEN Zero ELSE NaF)

fnExp(args) ==
    IF Len(args) < 1 THEN Refused("EXP requires 1 argument")
    ELSE GivenFloat(OneAtZero(Call("ToFloat", <<args[1]>>)))

fnCInt(args) ==
    IF Len(args) < 1 THEN Refused("CINT requires 1 argument")
    ELSE Given(IntegerValue(Int16(Trunc(RoundToEven(Call("ToFloat", <<args[1]>>))))))

fnCLng(args) ==
    IF Len(args) < 1 THEN Refused("CLNG requires 1 argument")
    ELSE Given(LongValue(Int32(Trunc(RoundToEven(Call("ToFloat", <<args[1]>>))))))

fnCSng(args) ==
    LET With(f) == IF IsNaF(f) THEN Outside ELSE Given(SingleOf(f))
    IN IF Len(args) < 1 THEN Refused("CSNG requires 1 argument")
       ELSE With(Float32(Call("ToFloat", <<args[1]>>)))

fnCDbl(args) ==
    IF Len(args) < 1 THEN Refused("CDBL requires 1 argument")
    ELSE GivenFloat(Call("ToFloat", <<args[1]>>))

fnHex(args) ==
    IF Len(args) < 1 THEN Refused("HEX$ requires 1 argument")
    ELSE Given(StringValue(FormatBase(Call("ToInt", <<args[1]>>), 16)))

fnOct(args) ==
    IF Len(args) < 1 THEN Refused("OCT$ requires 1 argument")
    ELSE Given(StringValue(FormatBase(Call("ToInt", <<args[1]>>), 8)))

fnTab(args) ==
    IF Len(args) < 1 THEN Refused("TAB requires 1 argument")
    ELSE Spaces(Max(Call("ToInt", <<args[1]>>), 1) - 1)

fnSpc(args) ==
    IF Len(args) < 1 THEN Refused("SPC requires 1 argument")
    ELSE Spaces(Max(Call("ToInt", <<args[1]>>), 0))

\* math.Atan2(y, x) is y when y is a zero and x is above zero or the
\* positive zero
fnAtan2(args) ==
    LET With(y, x) ==
            IF IsNaF(y) \/ IsNaF(x) THEN Outside
            ELSE IF y.n = 0 /\ ~Negative(x) THEN Given(DoubleOf(y))
            ELSE Outside
    IN IF Len(args) < 2 THEN Refused("ATAN2 requires 2 arguments")
       ELSE With(Call("ToFloat", <<args[1]>>), Call("ToFloat", <<args[2]>>))

\* math.Round(v * multiplier) / multiplier with multiplier = math.Pow(10, d):
\* followed for 0 <= d <= 9, where the power of ten is exact
fnRound(args) ==
    LET With(v, decimals) ==
            IF decimals < 0 \/ decimals > 9 THEN Outside
            ELSE GivenFloat(Quotient(Round(Call("Product", <<v, Float(Pow(10, decimals), 1)>>)),
                                     Float(Pow(10, decimals), 1)))
    IN IF Len(args) < 1 THEN Refused("ROUND requires at least 1 argument")
       ELSE With(Call("ToFloat", <<args[1]>>), IF Len(args) >= 2 THEN Call("ToInt", <<args[2]>>) ELSE 0)

\* fnRnd: the next number of the random source, as a float32.  A negative
\* argument reseeds the source first: the numbers the host holds are then
\* taken to be those of the new source
fnRnd(S, args) ==
    LET With(f) ==
            IF IsNaF(f) THEN Fail(Beyond, S)
            ELSE Ok(SingleOf(f), [S EXCEPT !.host.random = Tail(@)])
    IN IF S.host.random = <<>> THEN Fail(Beyond, S)
       ELSE With(Float32(Head(S.host.random)))

\* time.Now(): the next reading of the host's clock, [year, month, day,
\* hour, minute, second] in the local zone
TwoDigits(n) == <<48 + (n \div 10), 48 + (n % 10)>>
FourDigits(n) == TwoDigits(n \div 100) \o TwoDigits(n % 100)

\* fnTimer: the seconds since the midnight of the reading, as a float32
fnTimer(S) ==
    LET With(now) ==
            Ok(SingleOf(Float32(Float(now.hour * 3600 + now.minute * 60 + now.second, 1))),
               [S EXCEPT !.host.clock = Tail(@)])
    IN IF S.host.clock = <<>> THEN Fail(Beyond, S) ELSE With(Head(S.host.clock))

\* fnDate: now.Format("01-02-2006")
fnDate(S) ==
    LET With(now) ==
            Ok(StringValue(TwoDigits(now.month) \o <<45>> \o TwoDigits(now.day) \o <<45>>
                           \o FourDigits(now.year)),
               [S EXCEPT !.host.clock = Tail(@)])
    IN IF S.host.clock = <<>> THEN Fail(Beyond, S) ELSE With(Head(S.host.clock))

\* fnTime: now.Format("15:04:05")
fnTime(S) ==
    LET With(now) ==
            Ok(StringValue(TwoDigits(now.hour) \o <<58>> \o TwoDigits(now.minute) \o <<58>>
                           \o TwoDigits(now.second)),
               [S EXCEPT !.host.clock = Tail(@)])
    IN IF S.host.clock = <<>> THEN Fail(Beyond, S) ELSE With(Head(S.host.clock))

\* fnPi: math.Pi is no fraction of the model
fnPi(args) == Outside

\* the functions of registerAll that neither read the clock nor the random
\* source
PureBuiltins ==
    {"LEN", "LEFT$", "RIGHT$", "MID$", "INSTR", "UCASE$", "LCASE$", "STR$", "VAL", "CHR$",
     "ASC", "STRING$", "SPACE$", "LTRIM$", "RTRIM$", "TRIM$", "ABS", "SGN", "INT", "FIX",
     "SQR", "SIN", "COS", "TAN", "ATN", "LOG", "EXP", "CINT", "CLNG", "CSNG", "CDBL",
     "HEX$", "OCT$", "TAB", "SPC", "ATAN2", "ATN2", "ROUND", "_PI", "PI"}

registerAll(name, args) ==
    CASE name = "LEN" -> fnLen(args)
      [] name = "LEFT$" -> fnLeft(args)
      [] name = "RIGHT$" -> fnRight(args)
      [] name = "MID$" -> fnMid(args)
      [] name = "INSTR" -> fnInstr(args)
      [] name = "UCASE$" -> fnUCase(args)
      [] name = "LCASE$" -> fnLCase(args)
      [] name = "STR$" -> fnStr(args)
      [] name = "VAL" -> fnVal(args)
      [] name = "CHR$" -> fnChr(args)
      [] name = "ASC" -> fnAsc(args)
      [] name = "STRING$" -> fnString(args)
      [] name = "SPACE$" -> fnSpace(args)
      [] name = "LTRIM$" -> fnLTrim(args)
      [] name = "RTRIM$" -> fnRTrim(args)
      [] name = "TRIM$" -> fnTrim(args)
      [] name = "ABS" -> fnAbs(args)
      [] name = "SGN" -> fnSgn(args)
      [] name = "INT" -> fnInt(args)
      [] name = "FIX" -> fnFix(args)
      [] name = "SQR" -> fnSqr(args)
      [] name = "SIN" -> fnSin(args)
      [] name = "COS" -> fnCos(args)
      [] name = "TAN" -> fnTan(args)
      [] name = "ATN" -> fnAtn(args)
      [] name = "LOG" -> fnLog(args)
      [] name = "EXP" -> fnExp(args)
      [] name = "CINT" -> fnCInt(args)
      [] name = "CLNG" -> fnCLng(args)
      [] name = "CSNG" -> fnCSng(args)
      [] name = "CDBL" -> fnCDbl(args)
      [] name = "HEX$" -> fnHex(args)
      [] name = "OCT$" -> fnOct(args)
      [] name = "TAB" -> fnTab(args)
      [] name = "SPC" -> fnSpc(args)
      [] name \in {"ATAN2", "ATN2"} -> fnAtan2(args)
      [] name = "ROUND" -> fnRound(args)
      [] name \in {"_PI", "PI"} -> fnPi(args)

\* Registry.Call, followed by builtinToValue
builtinsCall(S, name, args) ==
    LET With(r) == [val |-> r.val, sig |-> r.sig, S |-> S]
    IN CASE name = "RND" -> fnRnd(S, args)
         [] name = "TIMER" -> fnTimer(S)
         [] name = "DATE$" -> fnDate(S)
         [] name = "TIME$" -> fnTime(S)
         [] name \in PureBuiltins ->
                IF \E k \in 1..Len(args) : ~InModel(args[k]) THEN Fail(Beyond, S)
                ELSE With(Call("registerAll", <<name, args>>))
         [] OTHER -> Err("unknown function: " \o name, S)

\* --------------------------------------------------------------------------
\* Expression evaluation.  The result is [val, sig, S]: reading an
\* undeclared scalar creates it, and a call of a user FUNCTION runs
\* statements, so evaluation changes the interpreter
\* --------------------------------------------------------------------------
\* the loop of pow: the exponent is halved as an int until it is 0
RECURSIVE PowLoop(_, _, _)
PowLoop(acc, base, exp) ==
    IF exp.n <= 0 THEN acc
    ELSE PowLoop(IF Trunc(exp) % 2 = 1 THEN Call("Product", <<acc, base>>) ELSE acc,
                 Call("Product", <<base, base>>), Float(Trunc(exp) \div 2, 1))

pow(base, exp) ==
    IF IsNaF(base) \/ IsNaF(exp) THEN NaF
    ELSE IF FloatEq(exp, Zero) THEN Float(1, 1)
    ELSE IF exp = Float(1, 1) THEN base
    ELSE IF exp = Float(2, 1) THEN Call("Product", <<base, base>>)
    ELSE PowLoop(Float(1, 1), base, exp)

\* & and ^ of int64 in two's complement.  The operands of the model are
\* within int32, where so are the results and int32(x) is x.
RECURSIVE BitAnd(_, _)
BitAnd(a, b) ==
    IF a = 0 \/ b = 0 THEN 0
    ELSE IF a = -1 THEN b
    ELSE IF b = -1 THEN a
    ELSE (a % 2) * (b % 2) + 2 * BitAnd(a \div 2, b \div 2)

RECURSIVE BitXor(_, _)
BitXor(a, b) ==
    IF a = 0 THEN b
    ELSE IF b = 0 THEN a
    ELSE IF a = -1 THEN -b - 1
    ELSE IF b = -1 THEN -a - 1
    ELSE (((a % 2) + (b % 2)) % 2) + 2 * BitXor(a \div 2, b \div 2)

BitOr(a, b) == a + b - BitAnd(a, b)

\* the numeric cases of evaluateBinaryExpr: the operands are tested as
\* float64, the integer operations work on what int64() leaves of them;
\* [val, sig]
BinaryOp(op, lf, rf) ==
    LET DivisionByZero == Refused("division by zero")
        Integral(n) == Given(LongValue(Int32(n)))
    IN IF ~Dyadic(lf) \/ ~Dyadic(rf) THEN Outside
       ELSE CASE op = "+" -> GivenFloat(Call("Sum", <<lf, rf>>))
         [] op = "-" -> GivenFloat(Difference(lf, rf))
         [] op = "*" -> GivenFloat(Call("Product", <<lf, rf>>))
         [] op = "/" -> IF rf.n = 0 THEN DivisionByZero ELSE GivenFloat(Quotient(lf, rf))
         [] op = "\\" -> IF rf.n = 0 THEN DivisionByZero
                        ELSE IF Trunc(rf) = 0 THEN [val |-> NoValue, sig |-> Panic(DividePanic)]
                        ELSE Integral(GoDiv(Trunc(lf), Trunc(rf)))
         [] op = "^" -> GivenFloat(pow(lf, rf))
         [] op = "MOD" -> IF rf.n = 0 THEN DivisionByZero
                          ELSE IF Trunc(rf) = 0 THEN [val |-> NoValue, sig |-> Panic(DividePanic)]
                          ELSE Integral(GoRem(Trunc(lf), Trunc(rf)))
         [] op = "=" -> Given(boolToValue(FloatEq(lf, rf)))
         [] op = "<>" -> Given(boolToValue(~FloatEq(lf, rf)))
         [] op = "<" -> Given(boolToValue(Call("Less", <<lf, rf>>)))
         [] op = ">" -> Given(boolToValue(Call("Less", <<rf, lf>>)))
         [] op = "<=" -> Given(boolToValue(~Call("Less", <<rf, lf>>)))
         [] op = ">=" -> Given(boolToValue(~Call("Less", <<lf, rf>>)))
         [] op = "AND" -> Integral(BitAnd(Trunc(lf), Trunc(rf)))
         [] op = "OR" -> Integral(BitOr(Trunc(lf), Trunc(rf)))
         [] op = "XOR" -> Integral(BitXor(Trunc(lf), Trunc(rf)))
         [] op = "EQV" -> Integral(-BitXor(Trunc(lf), Trunc(rf)) - 1)
         [] op = "IMP" -> Integral(BitOr(-Trunc(lf) - 1, Trunc(rf)))
         [] OTHER -> Refused("unknown operator: " \o op)

\* the string comparisons of evaluateBinaryExpr
StringOp(op, ls, rs) ==
    CASE op = "=" -> Given(boolToValue(ls = rs))
      [] op = "<>" -> Given(boolToValue(ls # rs))
      [] op = "<" -> Given(boolToValue(StringLess(ls, rs)))
      [] op = ">" -> Given(boolToValue(StringLess(rs, ls)))
      [] op = "<=" -> Given(boolToValue(~StringLess(rs, ls)))
      [] op = ">=" -> Given(boolToValue(~StringLess(ls, rs)))
      [] OTHER -> Refused("invalid operator " \o op \o " for strings")

\* Interpreter.GetNextFreeFile
GetNextFreeFile(fs) ==
    IF \A n \in 1..255 : n \in DOMAIN fs THEN 0
    ELSE CHOOSE n \in 1..255 : n \notin DOMAIN fs /\ \A m \in 1..(n - 1) : m \in DOMAIN fs

\* the Go type of an expression node, as %T prints it
TypeName(expr) == IF expr.node = "nil" THEN "<nil>" ELSE "*ast." \o expr.node

evaluateBinaryExpr(prog, S, e) ==
    LET Done(r, S2) == [val |-> r.val, sig |-> r.sig, S |-> S2]
        WithRight(l, r) ==
            IF r.sig # NoSignal THEN r
            ELSE IF e.Operator = "+" /\ (l.val.type = "STRING" \/ r.val.type = "STRING")
            THEN Ok(StringValue(Call("ValueString", <<l.val>>) \o Call("ValueString", <<r.val>>)), r.S)
            ELSE IF l.val.type = "STRING" /\ r.val.type = "STRING"
            THEN Done(StringOp(e.Operator, l.val.val, r.val.val), r.S)
            ELSE Done(Call("BinaryOp", <<e.Operator, Call("ToFloat", <<l.val>>), Call("ToFloat", <<r.val>>)>>), r.S)
        WithLeft(l) ==
            IF l.sig # NoSignal THEN l ELSE WithRight(l, Call("evaluate", <<prog, l.S, e.Right>>))
    IN WithLeft(Call("evaluate", <<prog, S, e.Left>>))

evaluateUnaryExpr(prog, S, e) ==
    LET With(right) ==
            IF right.sig # NoSignal THEN right
            ELSE IF e.Operator = "-" THEN Ok(DoubleOf(Neg(Call("ToFloat", <<right.val>>))), right.S)
            ELSE IF e.Operator = "NOT"
            THEN Ok(LongValue(Int32(-Call("ToInt", <<right.val>>) - 1)), right.S)
            ELSE Err("unknown unary operator: " \o e.Operator, right.S)
    IN With(Call("evaluate", <<prog, S, e.Right>>))

\* arr.Get(subscripts) on the array that GetArray returned before the
\* subscripts were evaluated.  When an array was made in between (a
\* FUNCTION called in a subscript ran DIM or REDIM), the pointer may be to
\* an array that is no longer the one of that name: not followed
ElementOf(S, name, subs) ==
    LET With(arr) ==
            IF GetIndex(arr, subs.vals).ok THEN Ok(ArrayGet(arr, subs.vals).val, subs.S)
            ELSE Err(Call("IndexError", <<arr, subs.vals>>), subs.S)
    IN IF subs.sig # NoSignal THEN Fail(subs.sig, subs.S)
       ELSE IF subs.S.allocs # S.allocs THEN Fail(Beyond, subs.S)
       ELSE With(Call("GetArray", <<subs.S.heap, subs.S.env, name>>).arr)

evaluateCallExpr(prog, S, e) ==
    LET name == Call("ToUpper", <<e.Function>>)
        Called(args) ==
            IF args.sig # NoSignal THEN Fail(args.sig, args.S)
            ELSE Call("builtinsCall", <<args.S, name, args.vals>>)
    IN IF Call("GetArray", <<S.heap, S.env, name>>).ok
       THEN Call("ElementOf", <<S, name, Call("evaluateSubscripts", <<prog, S, e.Arguments, 1>>)>>)
       ELSE IF name \in DOMAIN prog.Functions
       THEN Call("callFunction", <<prog, S, prog.Functions[name], e.Arguments>>)
       ELSE IF name \in {"EOF", "LOF", "LOC"} THEN Call("evaluateFileFunction", <<prog, S, name, e>>)
       ELSE IF name = "FREEFILE" THEN Ok(IntegerValue(Int16(GetNextFreeFile(S.files))), S)
       ELSE Called(Call("evaluateArgs", <<prog, S, e.Arguments, 1>>))

evaluateIdentifier(prog, S, e) ==
    LET name == Call("ToUpper", <<e.Name>>)
        Created(c) == Ok(c.val, [S EXCEPT !.heap = c.heap])
        Looked(got) ==
            IF got.ok THEN Ok(got.val, S)
            ELSE Created(GetOrCreate(S.heap, S.env, e.Name, e.TypeHint))
    IN IF name \in {"RND", "TIMER", "DATE$", "TIME$", "INKEY$", "_PI", "PI"}
       THEN Call("builtinsCall", <<S, name, <<>>>>)
       ELSE IF name = "FREEFILE" THEN Ok(IntegerValue(Int16(GetNextFreeFile(S.files))), S)
       ELSE Looked(Call("EnvGet", <<S.heap, S.env, e.Name>>))

evaluate(prog, S, expr) ==
    Checked(
        CASE expr.node = "IntegerLiteral" -> Ok(LongValue(Int32(expr.Value)), S)
          [] expr.node = "FloatLiteral" -> Ok(DoubleOf(expr.Value), S)
          [] expr.node = "StringLiteral" -> Ok(StringValue(expr.Value), S)
          [] expr.node = "Identifier" -> evaluateIdentifier(prog, S, expr)
          [] expr.node = "ArrayAccess" ->
                IF Call("GetArray", <<S.heap, S.env, expr.Name>>).ok
                THEN Call("ElementOf", <<S, expr.Name, Call("evaluateSubscripts", <<prog, S, expr.Indices, 1>>)>>)
                ELSE Err("array " \o expr.Name \o " not defined", S)
          [] expr.node = "BinaryExpr" -> Call("evaluateBinaryExpr", <<prog, S, expr>>)
          [] expr.node = "UnaryExpr" -> evaluateUnaryExpr(prog, S, expr)
          [] expr.node = "CallExpr" -> evaluateCallExpr(prog, S, expr)
          [] expr.node = "GroupedExpr" -> Call("evaluate", <<prog, S, expr.Expression>>)
          [] OTHER -> Err("unknown expression type: " \o TypeName(expr), S))

\* evaluateSubscripts: each expression evaluated and converted with ToInt;
\* [vals, sig, S]
evaluateSubscripts(prog, S, exprs, k) ==
    LET Cons(v, rest) == [rest EXCEPT !.vals = <<Call("ToInt", <<v.val>>)>> \o rest.vals]
        With(v) ==
            IF v.sig # NoSignal THEN [vals |-> <<>>, sig |-> v.sig, S |-> v.S]
            ELSE Cons(v, Call("evaluateSubscripts", <<prog, v.S, exprs, k + 1>>))
    IN IF k > Len(exprs) THEN [vals |-> <<>>, sig |-> NoSignal, S |-> S]
       ELSE With(Call("evaluate", <<prog, S, exprs[k]>>))

\* the argument loops of callSub, callFunction and evaluateCallExpr:
\* [vals, sig, S]
evaluateArgs(prog, S, args, k) ==
    LET Cons(v, rest) == [rest EXCEPT !.vals = <<v.val>> \o rest.vals]
        With(v) ==
            IF v.sig # NoSignal THEN [vals |-> <<>>, sig |-> v.sig, S |-> v.S]
            ELSE Cons(v, Call("evaluateArgs", <<prog, v.S, args, k + 1>>))
    IN IF k > Len(args) THEN [vals |-> <<>>, sig |-> NoSignal, S |-> S]
       ELSE With(Call("evaluate", <<prog, S, args[k]>>))

\* the parameter-binding loop of callSub / callFunction, on the new scope
RECURSIVE BindParameters(_, _, _, _, _)
BindParameters(h, e, params, argVals, k) ==
    IF k > Len(params) THEN h
    ELSE BindParameters(
            EnvSet(h, e, params[k].Name,
                   IF k <= Len(argVals) THEN argVals[k]
                   ELSE DefaultValue(params[k].DataType)),
            e, params, argVals, k + 1)

\* A Go activation that executes a statement list: idx is the next statement
BodyFrame(fn, body, ctx) == [fn |-> fn, body |-> body, idx |-> 1, ctx |-> ctx]

\* callFunction: the arguments, the new scope, the body loop, the return
\* value.  The body runs in the steps of the machine (RunBody) until the
\* activation pushed here has returned; a body that takes more than
\* MaxCallSteps steps, and a call nested deeper than MaxNesting, are not
\* followed
callFunction(prog, S, fn, args) ==
    LET Back(R) ==
            IF R.signal.kind = "beyond" THEN Fail(Beyond, R)
            ELSE IF R.signal # NoSignal THEN Fail(R.signal, [R EXCEPT !.signal = NoSignal])
            ELSE Ok(R.value, [R EXCEPT !.value = NoValue])
        Enter(a, local) ==
            Back(Call("RunBody", <<prog,
                [a.S EXCEPT
                    !.heap = EnvSet(BindParameters(
                                        Append(a.S.heap, NewEnclosedEnvironment(a.S.env)),
                                        local, fn.Parameters, a.vals, 1),
                                    local, fn.Name, DefaultValue(fn.ReturnType)),
                    !.env = local,
                    !.goStack = Append(@, BodyFrame("callFunction", fn.Body,
                                    [Name |-> Call("ToUpper", <<fn.Name>>), ReturnType |-> fn.ReturnType,
                                     savedEnv |-> a.S.env,
                                     stackBefore |-> a.S.state.CallStack,
                                     assigned |-> DefaultValue(fn.ReturnType),
                                     returned |-> NoValue]))],
                Len(a.S.goStack), MaxCallSteps>>))
        With(a) ==
            IF a.sig # NoSignal THEN Fail(a.sig, a.S)
            ELSE IF Cardinality({k \in 1..Len(a.S.goStack) :
                                    a.S.goStack[k].fn = "callFunction"}) >= MaxNesting
            THEN Fail(Beyond, a.S)
            ELSE Enter(a, Len(a.S.heap) + 1)
    IN With(Call("evaluateArgs", <<prog, S, args, 1>>))

\* --------------------------------------------------------------------------
\* Program side tables, as ParseProgram fills them for a statement array
\* --------------------------------------------------------------------------
NewProgram ==
    [Statements |-> <<>>, Labels |-> EmptyMap, LineNumbers |-> EmptyMap,
     DataItems |-> <<>>, Subs |-> EmptyMap, Functions |-> EmptyMap]

\* the body of ParseProgram's loop for one parsed statement: record the side
\* tables, then append the statement (indices are 0-based, as in Go)
AddStatement(prog, stmt) ==
    LET at == Len(prog.Statements)
        p == CASE stmt.type = "LineNumberStmt" ->
                    [prog EXCEPT !.LineNumbers = (stmt.Number :> at) @@ prog.LineNumbers]
               [] stmt.type = "LabelStmt" ->
                    [prog EXCEPT !.Labels = (Call("ToUpper", <<stmt.Name>>) :> at) @@ prog.Labels]
               [] stmt.type = "SubStatement" ->
                    [prog EXCEPT !.Subs = (Call("ToUpper", <<stmt.Name>>) :> stmt) @@ prog.Subs]
               [] stmt.type = "FuncStatement" ->
                    [prog EXCEPT !.Functions = (Call("ToUpper", <<stmt.Name>>) :> stmt) @@ prog.Functions]
               [] stmt.type = "DataStmt" ->
                    [prog EXCEPT !.DataItems = prog.DataItems \o stmt.Values]
               [] OTHER -> prog
    IN [p EXCEPT !.Statements = Append(prog.Statements, stmt)]

ProgramOf(stmts, k, prog) ==
    IF k > Len(stmts) THEN prog
    ELSE Call("ProgramOf", <<stmts, k + 1, Call("AddStatement", <<prog, stmts[k]>>)>>)

\* --------------------------------------------------------------------------
\* Execution state
\* --------------------------------------------------------------------------
NewExecutionState ==
    [ProgramCounter |-> 0, CallStack |-> <<>>, DataPointer |-> 0, ForStack |-> <<>>,
     DoStack |-> <<>>, WhileStack |-> <<>>, Running |-> FALSE, StepMode |-> FALSE]

CallFrame(ret, localEnv, type, funcName) ==
    [ReturnIndex |-> ret, LocalEnv |-> localEnv, Type |-> type, FuncName |-> funcName]

PushCall(st, frame) == [st EXCEPT !.CallStack = Append(@, frame)]

\* PopCall taking the oldest frame instead of the newest: the LIFO order of
\* C5 does not survive it
PopCallOldest(st) ==
    IF Len(st.CallStack) = 0
    THEN [ok |-> FALSE, frame |-> CallFrame(0, Nil, "", ""), state |-> st]
    ELSE [ok |-> TRUE, frame |-> Head(st.CallStack),
          state |-> [st EXCEPT !.CallStack = Tail(@)]]

\* ExecutionState.PopCall: [ok, frame, state]
PopCall(st) ==
    IF Len(st.CallStack) = 0
    THEN [ok |-> FALSE, frame |-> CallFrame(0, Nil, "", ""), state |-> st]
    ELSE [ok |-> TRUE, frame |-> Last(st.CallStack),
          state |-> [st EXCEPT !.CallStack = Front(@)]]

\* A statement returned nil to its caller.  When the caller is Run, the main
\* loop increments the program counter; a body loop just goes on.
ReturnNil(S) ==
    IF S.goStack = <<>> THEN [S EXCEPT !.state.ProgramCounter = @ + 1] ELSE S

\* A statement returned a non-nil error to its caller
ReturnErr(S, sig) == [S EXCEPT !.signal = sig]

\* the statement returns the error of an evaluation
Failed(r) == ReturnErr(r.S, r.sig)

\* parseLineNumber: fmt.Sscanf(s, "%d", &n); [ok, n].  A number beyond the
\* integers of the model is the number of no line
parseLineNumber(s) ==
    LET With(r) == [ok |-> ~r.err /\ ~r.beyond, n |-> r.n]
    IN With(ScanInt(Call("BytesOf", <<s>>)))

\* The target resolution shared by GOTO and GOSUB: line number first, label
\* otherwise.  [ok, idx]
ResolveTarget(prog, target) ==
    LET With(t, ln) ==
            IF ln.ok /\ ln.n \in DOMAIN prog.LineNumbers
            THEN [ok |-> TRUE, idx |-> prog.LineNumbers[ln.n]]
            ELSE IF t \in DOMAIN prog.Labels
            THEN [ok |-> TRUE, idx |-> prog.Labels[t]]
            ELSE [ok |-> FALSE, idx |-> 0]
    IN With(Call("ToUpper", <<target>>), Call("parseLineNumber", <<Call("ToUpper", <<target>>)>>))

executeGotoStatement(prog, S, s) ==
    LET With(r) ==
            IF r.ok THEN ReturnNil([S EXCEPT !.state.ProgramCounter = r.idx - 1])
            ELSE ReturnErr(S, ErrorOf("undefined label or line number: " \o s.Target))
    IN With(Call("ResolveTarget", <<prog, s.Target>>))

executeGosubStatement(prog, S, s) ==
    LET With(pushed, r) ==
            IF r.ok THEN ReturnNil([pushed EXCEPT !.state.ProgramCounter = r.idx - 1])
            ELSE ReturnErr(pushed, ErrorOf("undefined label or line number: " \o s.Target))
    IN With([S EXCEPT !.state =
                PushCall(@, CallFrame(S.state.ProgramCounter, Nil, "GOSUB", ""))],
            Call("ResolveTarget", <<prog, s.Target>>))

\* RETURN with no frame taken as a no-op: C10 does not survive it
ReturnWithoutFrameIgnored(S) == ReturnNil(S)

\* the !ok branch of executeReturnStatement
ReturnWithoutFrame(S) == ReturnErr(S, ErrorOf("RETURN without GOSUB"))

executeReturnStatement(prog, S, s) ==
    LET \* frame.LocalEnv.parent when there is one, else the current env
        Parent(frame, C) ==
            IF frame.LocalEnv # Nil /\ C.heap[frame.LocalEnv].parent # Nil
            THEN C.heap[frame.LocalEnv].parent ELSE C.env
        Valued(frame, v) ==
            IF v.sig # NoSignal THEN Failed(v)
            ELSE ReturnNil([v.S EXCEPT
                    !.env = Parent(frame, v.S),
                    !.heap = EnvSet(@, Parent(frame, v.S), frame.FuncName, v.val),
                    !.state.ProgramCounter = frame.ReturnIndex])
        Popped(pop, frame, P) ==
            IF ~pop.ok THEN ReturnWithoutFrame(S)
            ELSE IF frame.Type = "GOSUB"
            THEN ReturnNil([P EXCEPT !.state.ProgramCounter = frame.ReturnIndex])
            ELSE IF s.Value.node # "nil" /\ frame.Type = "FUNCTION"
            THEN Valued(frame, Call("evaluate", <<prog, P, s.Value>>))
            ELSE ReturnNil([P EXCEPT !.env = Parent(frame, P),
                                     !.state.ProgramCounter = frame.ReturnIndex])
        WithPop(pop) == Popped(pop, pop.frame, [S EXCEPT !.state = pop.state])
    IN WithPop(PopCall(S.state))

executeExitStatement(S, s) == ReturnErr(S, ExitError(s.ExitType))

\* The loop of skipSubDefinition / skipFunctionDefinition: advance the
\* program counter to the next EndStmt or the next statement of type stopType,
\* or to the last statement of the array.
RECURSIVE SkipDefinition(_, _, _)
SkipDefinition(stmts, pc, stopType) ==
    IF pc < Len(stmts) - 1
    THEN IF stmts[pc + 2].type \in {"EndStmt", stopType} THEN pc + 1
         ELSE SkipDefinition(stmts, pc + 1, stopType)
    ELSE pc

skipSubDefinition(prog, S) ==
    ReturnNil([S EXCEPT !.state.ProgramCounter =
                  SkipDefinition(prog.Statements, @, "SubStatement")])

skipFunctionDefinition(prog, S) ==
    ReturnNil([S EXCEPT !.state.ProgramCounter =
                  SkipDefinition(prog.Statements, @, "FuncStatement")])

\* callSub up to its body loop, which the activation pushed here runs
callSub(prog, S, name, args) ==
    LET n == Call("ToUpper", <<name>>)
        Enter(a, local) ==
            [a.S EXCEPT
                !.heap = BindParameters(Append(@, NewEnclosedEnvironment(a.S.env)),
                                        local, prog.Subs[n].Parameters, a.vals, 1),
                !.env = local,
                !.state = PushCall(@, CallFrame(a.S.state.ProgramCounter, a.S.env, "SUB", "")),
                !.goStack = Append(@, BodyFrame("callSub", prog.Subs[n].Body,
                                [Name |-> n, callerEnv |-> a.S.env,
                                 stackBefore |-> a.S.state.CallStack]))]
        With(a) ==
            IF a.sig # NoSignal THEN Failed(a)
            ELSE Enter(a, Len(a.S.heap) + 1)
    IN IF n \notin DOMAIN prog.Subs THEN ReturnErr(S, ErrorOf("undefined SUB: " \o n))
       ELSE With(Call("evaluateArgs", <<prog, S, args, 1>>))

executeCallStatement(prog, S, s) == callSub(prog, S, s.Name, s.Arguments)

executeSubCallStatement(prog, S, s) == callSub(prog, S, s.Name, s.Arguments)

\* arr.Set(subscripts, value) on the array that GetArray(name) returned
\* before the subscripts were evaluated, as LET, READ and INPUT do it:
\* [sig, range, S]; range tells that Array.Set refused the subscripts.  When
\* an array was made in between, the pointer may be to an array that is no
\* longer the one of that name: not followed
SetElement(prog, S, name, args, value) ==
    LET Put(subs, arr, r) ==
            [sig |-> IF r.ok THEN NoSignal ELSE ErrorOf(Call("IndexError", <<arr, subs.vals>>)),
             range |-> ~r.ok,
             S |-> IF r.ok
                   THEN [subs.S EXCEPT !.heap = StoreArray(@, S.env, name, r.arr)]
                   ELSE subs.S]
        Into(subs, arr) == Put(subs, arr, ArraySet(arr, subs.vals, value))
        With(subs) ==
            IF subs.sig # NoSignal THEN [sig |-> subs.sig, range |-> FALSE, S |-> subs.S]
            ELSE IF subs.S.allocs # S.allocs
            THEN [sig |-> Beyond, range |-> FALSE, S |-> subs.S]
            ELSE Into(subs, Call("GetArray", <<subs.S.heap, S.env, name>>).arr)
    IN IF ~Call("GetArray", <<S.heap, S.env, name>>).ok
       THEN [sig |-> ErrorOf("array " \o name \o " not defined"), range |-> FALSE, S |-> S]
       ELSE With(Call("evaluateSubscripts", <<prog, S, args, 1>>))

\* executeLetStatement after the right-hand side has been evaluated
AssignTarget(prog, S, s, value) ==
    LET Element(r) == IF r.sig # NoSignal THEN Failed(r) ELSE ReturnNil(r.S)
    IN IF s.Name.node = "CallExpr"
       THEN (IF Call("GetArray", <<S.heap, S.env, s.Name.Function>>).ok
             THEN Element(Call("SetElement", <<prog, S, s.Name.Function, s.Name.Arguments, value>>))
             ELSE ReturnErr(S, ErrorOf("cannot assign to function call")))
       ELSE IF s.Name.node = "ArrayAccess"
       THEN Element(Call("SetElement", <<prog, S, s.Name.Name, s.Name.Indices, value>>))
       ELSE IF s.Name.node # "Identifier"
       THEN ReturnErr(S, ErrorOf("invalid assignment target: " \o TypeName(s.Name)))
       ELSE IF Call("GetArray", <<S.heap, S.env, s.Name.Name>>).ok
       THEN ReturnErr(S, ErrorOf("array " \o s.Name.Name \o " requires subscripts"))
       ELSE ReturnNil([S EXCEPT !.heap = EnvSet(@, S.env, s.Name.Name, value)])

executeLetStatement(prog, S, s) ==
    LET With(v) ==
            IF v.sig # NoSignal THEN Failed(v)
            ELSE Call("AssignTarget", <<prog, v.S, s, v.val>>)
    IN With(Call("evaluate", <<prog, S, s.Value>>))

\* --------------------------------------------------------------------------
\* Declarations, constants, DATA
\* --------------------------------------------------------------------------
\* the kind of a declared variable: its AS type, else the suffix of its name
DeclaredType(v) == IF v.DataType = "UNKNOWN" THEN inferType(v.Name) ELSE v.DataType

\* env.DeclareArray(name, dt, dims) as a step of a statement: an array
\* larger than the model follows, the panic of make, or the new array
Declared(C, name, dt, dims) ==
    IF DeclareBeyond(dims) THEN ReturnErr(C, Beyond)
    ELSE IF DeclarePanics(dims) THEN ReturnErr(C, Panic(MakeslicePanic))
    ELSE [C EXCEPT !.heap = DeclareArray(@, C.env, name, dt, dims),
                   !.allocs = @ + 1]

\* the loop of executeDimStatement from variable k on.  The Shared flag of
\* the statement is not read.
RECURSIVE DimVariables(_, _, _, _)
DimVariables(prog, S, variables, k) ==
    LET Rest(C) ==
            IF C.signal # NoSignal THEN C ELSE DimVariables(prog, C, variables, k + 1)
        Array(v, dims) ==
            IF dims.sig # NoSignal THEN Failed(dims)
            ELSE Rest(Declared(dims.S, v.Name, DeclaredType(v), dims.vals))
        One(v) ==
            IF Len(v.Dimensions) > 0
            THEN Array(v, Call("evaluateSubscripts", <<prog, S, v.Dimensions, 1>>))
            ELSE Rest([S EXCEPT !.heap =
                          EnvSet(@, S.env, v.Name, DefaultValue(DeclaredType(v)))])
    IN IF k > Len(variables) THEN ReturnNil(S) ELSE One(variables[k])

executeDimStatement(prog, S, s) == DimVariables(prog, S, s.Variables, 1)

\* copyArrayData: the destination after the copy; only when both arrays have
\* one dimension are the elements up to the smaller upper bound copied
copyArrayData(src, dst) ==
    LET With(maxIdx) ==
            [dst EXCEPT !.Data = [k \in DOMAIN dst.Data |->
                IF k - 1 <= maxIdx THEN src.Data[k] ELSE dst.Data[k]]]
    IN IF Len(src.Dimensions) = 1 /\ Len(dst.Dimensions) = 1
       THEN With(IF dst.Dimensions[1].Upper < src.Dimensions[1].Upper
                 THEN dst.Dimensions[1].Upper ELSE src.Dimensions[1].Upper)
       ELSE dst

\* the loop of executeRedimStatement from variable k on
RECURSIVE RedimVariables(_, _, _, _, _)
RedimVariables(prog, S, preserve, variables, k) ==
    LET Rest(C) ==
            IF C.signal # NoSignal THEN C
            ELSE RedimVariables(prog, C, preserve, variables, k + 1)
        Copied(C, v, existing) ==
            IF C.signal # NoSignal THEN C
            ELSE [C EXCEPT !.heap[C.env].arrays[Call("ToUpper", <<v.Name>>)] = copyArrayData(existing, @)]
        Array(v, dims) ==
            IF dims.sig # NoSignal THEN Failed(dims)
            ELSE IF preserve /\ Call("GetArray", <<dims.S.heap, dims.S.env, v.Name>>).ok
            THEN Rest(Copied(Declared(dims.S, v.Name, DeclaredType(v), dims.vals),
                             v, Call("GetArray", <<dims.S.heap, dims.S.env, v.Name>>).arr))
            ELSE Rest(Declared(dims.S, v.Name, DeclaredType(v), dims.vals))
        One(v) ==
            IF Len(v.Dimensions) > 0
            THEN Array(v, Call("evaluateSubscripts", <<prog, S, v.Dimensions, 1>>))
            ELSE Rest(S)
    IN IF k > Len(variables) THEN ReturnNil(S) ELSE One(variables[k])

executeRedimStatement(prog, S, s) == RedimVariables(prog, S, s.Preserve, s.Variables, 1)

executeConstStatement(prog, S, s) ==
    LET Defined(C, d) ==
            IF d.err # "" THEN ReturnErr(C, ErrorOf(d.err))
            ELSE ReturnNil([C EXCEPT !.heap = d.heap])
        With(v) ==
            IF v.sig # NoSignal THEN Failed(v)
            ELSE Defined(v.S, DefineConst(v.S.heap, v.S.env, s.Name, v.val))
    IN With(Call("evaluate", <<prog, S, s.Value>>))

\* the loop of executeReadStatement from target k on.  The pointer has moved
\* when the target is stored; a refusal of Array.Set is not looked at.
RECURSIVE ReadVariables(_, _, _, _)
ReadVariables(prog, S, variables, k) ==
    LET Rest(C) == ReadVariables(prog, C, variables, k + 1)
        Element(r) == IF r.sig # NoSignal /\ ~r.range THEN Failed(r) ELSE Rest(r.S)
        Store(C, target, dataVal) ==
            CASE target.node = "Identifier" ->
                    Rest([C EXCEPT !.heap = EnvSet(@, C.env, target.Name, dataVal)])
              [] target.node = "CallExpr" ->
                    Element(Call("SetElement", <<prog, C, target.Function, target.Arguments, dataVal>>))
              [] OTHER -> Rest(C)
        With(v) ==
            IF v.sig # NoSignal THEN Failed(v)
            ELSE Store([v.S EXCEPT !.state.DataPointer = @ + 1], variables[k], v.val)
    IN IF k > Len(variables) THEN ReturnNil(S)
       ELSE IF S.state.DataPointer >= Len(prog.DataItems)
       THEN ReturnErr(S, ErrorOf("out of DATA"))
       ELSE With(Call("evaluate", <<prog, S, prog.DataItems[S.state.DataPointer + 1]>>))

Backwards(seq) == [k \in 1..Len(seq) |-> seq[Len(seq) + 1 - k]]

\* a READ that serves its targets from the last to the first
executeReadStatementBackwards(prog, S, s) ==
    ReadVariables(prog, S, Backwards(s.Variables), 1)

executeReadStatement(prog, S, s) == ReadVariables(prog, S, s.Variables, 1)

\* the DATA items of the statements before index idx, as RESTORE counts them
RECURSIVE CountData(_, _)
CountData(stmts, idx) ==
    IF idx = 0 THEN 0
    ELSE CountData(stmts, idx - 1)
            + (IF stmts[idx].type = "DataStmt" THEN Len(stmts[idx].Values) ELSE 0)

executeRestoreStatement(prog, S, s) ==
    LET With(ln) ==
            IF ln.ok /\ ln.n \in DOMAIN prog.LineNumbers
            THEN ReturnNil([S EXCEPT !.state.DataPointer =
                                CountData(prog.Statements, prog.LineNumbers[ln.n])])
            ELSE ReturnErr(S, ErrorOf("undefined label or line number: " \o s.Target))
    IN IF s.Target = "" THEN ReturnNil([S EXCEPT !.state.DataPointer = 0])
       ELSE With(Call("parseLineNumber", <<Call("ToUpper", <<s.Target>>)>>))

executeSwapStatement(prog, S, s) ==
    LET First(C, val2) ==
            IF s.Var1.node = "Identifier"
            THEN [C EXCEPT !.heap = EnvSet(@, C.env, s.Var1.Name, val2)] ELSE C
        Second(C, val1) ==
            IF s.Var2.node = "Identifier"
            THEN [C EXCEPT !.heap = EnvSet(@, C.env, s.Var2.Name, val1)] ELSE C
        Both(v1, v2) ==
            IF v2.sig # NoSignal THEN Failed(v2)
            ELSE ReturnNil(Second(First(v2.S, v2.val), v1.val))
        With(v1) ==
            IF v1.sig # NoSignal THEN Failed(v1)
            ELSE Both(v1, Call("evaluate", <<prog, v1.S, s.Var2>>))
    IN With(Call("evaluate", <<prog, S, s.Var1>>))

\* --------------------------------------------------------------------------
\* Structured statements.  Each pushes a Go activation for the body it runs.
\* R is the interpreter with the activation of the loop itself removed.
\* --------------------------------------------------------------------------
executeIfStatement(prog, S, s) ==
    LET Enter(C, body) ==
            [C EXCEPT !.goStack = Append(@, BodyFrame("executeIfStatement", body, s.Line))]
        With(c) ==
            IF c.sig # NoSignal THEN Failed(c)
            ELSE IF ToBool(c.val) THEN Enter(c.S, s.Consequence)
            ELSE IF Len(s.Alternative) > 0 THEN Enter(c.S, s.Alternative)
            ELSE ReturnNil(c.S)
    IN With(Call("evaluate", <<prog, S, s.Condition>>))

\* a termination test that also stops at the limit itself
ForTestExclusive(R, f) ==
    LET With(H, curr, end) ==
            IF (f.ctx.stepSign > 0 /\ ~Call("Less", <<curr, end>>)) \/ (f.ctx.stepSign < 0 /\ ~Call("Less", <<end, curr>>))
            THEN ReturnNil(H)
            ELSE [H EXCEPT !.goStack = Append(@, [f EXCEPT !.idx = 1, !.ctx.curr = curr])]
        Read(c) ==
            IF ~InModel(c.val) THEN ReturnErr(R, Beyond)
            ELSE With([R EXCEPT !.heap = c.heap], Call("ToFloat", <<c.val>>), Call("ToFloat", <<f.ctx.endVal>>))
    IN Read(GetOrCreate(R.heap, R.env, f.ctx.s.Variable.Name, "DOUBLE"))

\* the head of the for { } loop of executeForStatement: the termination test
ForTest(R, f) ==
    LET With(H, curr, end) ==
            IF (f.ctx.stepSign > 0 /\ Call("Less", <<end, curr>>)) \/ (f.ctx.stepSign < 0 /\ Call("Less", <<curr, end>>))
            THEN ReturnNil(H)
            ELSE [H EXCEPT !.goStack = Append(@, [f EXCEPT !.idx = 1, !.ctx.curr = curr])]
        Read(c) ==
            IF ~InModel(c.val) THEN ReturnErr(R, Beyond)
            ELSE With([R EXCEPT !.heap = c.heap], Call("ToFloat", <<c.val>>), Call("ToFloat", <<f.ctx.endVal>>))
    IN Read(GetOrCreate(R.heap, R.env, f.ctx.s.Variable.Name, "DOUBLE"))

executeForStatement(prog, S, s) ==
    LET Loop(end, C, stepVal) ==
            Call("ForTest", <<C, BodyFrame("executeForStatement", s.Body,
                            [s |-> s, endVal |-> end.val, stepVal |-> stepVal,
                             stepSign |-> IF Call("ToFloat", <<stepVal>>).n < 0 THEN -1 ELSE 1,
                             curr |-> Zero])>>)
        WithStep(end, step) ==
            IF step.sig # NoSignal THEN Failed(step)
            ELSE Loop(end, step.S, DoubleOf(Call("ToFloat", <<step.val>>)))
        WithEnd(end) ==
            IF end.sig # NoSignal THEN Failed(end)
            ELSE WithStep(end,
                       IF s.Step.node = "nil" THEN Ok(DoubleValue(1), end.S)
                       ELSE Call("evaluate", <<prog, end.S, s.Step>>))
        WithStart(start) ==
            IF start.sig # NoSignal THEN Failed(start)
            ELSE WithEnd(Call("evaluate", <<prog,
                            [start.S EXCEPT !.heap =
                                EnvSet(@, start.S.env, s.Variable.Name, start.val)],
                            s.End>>))
    IN WithStart(Call("evaluate", <<prog, S, s.Start>>))

\* the end of the body of a FOR: increment from the value read at the head
ForNext(R, f) ==
    Call("ForTest", <<[R EXCEPT !.heap = EnvSet(@, R.env, f.ctx.s.Variable.Name,
                                      DoubleOf(Call("Sum", <<f.ctx.curr, Call("ToFloat", <<f.ctx.stepVal>>)>>)))],
            f>>)

\* the head of the loop of executeWhileStatement
WhileTest(prog, R, f) ==
    LET With(c) ==
            IF c.sig # NoSignal THEN Failed(c)
            ELSE IF ~ToBool(c.val) THEN ReturnNil(c.S)
            ELSE [c.S EXCEPT !.goStack = Append(@, [f EXCEPT !.idx = 1])]
    IN With(Call("evaluate", <<prog, R, f.ctx.s.Condition>>))

executeWhileStatement(prog, S, s) ==
    WhileTest(prog, S, BodyFrame("executeWhileStatement", s.Body, [s |-> s]))

\* the condition test of executeDoLoopStatement at position pos:
\* [stop, sig, S]
DoCondition(prog, R, s, pos) ==
    LET With(c) ==
            [stop |-> /\ c.sig = NoSignal
                      /\ \/ (s.ConditionType = "WHILE" /\ ~ToBool(c.val))
                         \/ (s.ConditionType = "UNTIL" /\ ToBool(c.val)),
             sig |-> c.sig, S |-> c.S]
    IN IF s.ConditionPos = pos /\ s.Condition.node # "nil"
       THEN With(Call("evaluate", <<prog, R, s.Condition>>))
       ELSE [stop |-> FALSE, sig |-> NoSignal, S |-> R]

\* the head of the loop of executeDoLoopStatement: the pre-condition
DoPre(prog, R, f) ==
    LET With(c) ==
            IF c.sig # NoSignal THEN Failed(c)
            ELSE IF c.stop THEN ReturnNil(c.S)
            ELSE [c.S EXCEPT !.goStack = Append(@, [f EXCEPT !.idx = 1])]
    IN With(DoCondition(prog, R, f.ctx.s, "PRE"))

\* the end of the body of a DO: the post-condition, then the next iteration
DoPost(prog, R, f) ==
    LET With(c) ==
            IF c.sig # NoSignal THEN Failed(c)
            ELSE IF c.stop THEN ReturnNil(c.S)
            ELSE DoPre(prog, c.S, f)
    IN With(DoCondition(prog, R, f.ctx.s, "POST"))

executeDoLoopStatement(prog, S, s) ==
    DoPre(prog, S, BodyFrame("executeDoLoopStatement", s.Body, [s |-> s]))

\* one CaseValue of a clause against the scrutinee: [matched, sig, S].  A
\* CaseValue whose Type is none of the three evaluates nothing
CaseValueMatches(prog, S, testVal, cv) ==
    LET Is(cmp) ==
            CASE cv.Operator = "<" -> cmp < 0
              [] cv.Operator = ">" -> cmp > 0
              [] cv.Operator = "<=" -> cmp <= 0
              [] cv.Operator = ">=" -> cmp >= 0
              [] cv.Operator = "=" -> cmp = 0
              [] cv.Operator = "<>" -> cmp # 0
              [] OTHER -> FALSE
        Both(v, w) ==
            IF w.sig # NoSignal THEN [matched |-> FALSE, sig |-> w.sig, S |-> w.S]
            ELSE [matched |->
                     CASE cv.Type = "SINGLE" -> Call("Compare", <<testVal, v.val>>) = 0
                       [] cv.Type = "RANGE" ->
                            Call("Compare", <<testVal, v.val>>) >= 0 /\ Call("Compare", <<testVal, w.val>>) <= 0
                       [] cv.Type = "IS" -> Is(Call("Compare", <<testVal, v.val>>))
                       [] OTHER -> FALSE,
                  sig |-> NoSignal, S |-> w.S]
        With(v) ==
            IF v.sig # NoSignal THEN [matched |-> FALSE, sig |-> v.sig, S |-> v.S]
            ELSE Both(v, IF cv.Type = "RANGE" THEN Call("evaluate", <<prog, v.S, cv.EndValue>>)
                         ELSE Ok(NoValue, v.S))
    IN IF cv.Type \in {"SINGLE", "RANGE", "IS"} THEN With(Call("evaluate", <<prog, S, cv.Value>>))
       ELSE [matched |-> FALSE, sig |-> NoSignal, S |-> S]

\* the values of one clause, in order, up to the first match
RECURSIVE ClauseMatches(_, _, _, _, _)
ClauseMatches(prog, S, testVal, values, k) ==
    LET With(m) ==
            IF m.sig # NoSignal \/ m.matched THEN m
            ELSE ClauseMatches(prog, m.S, testVal, values, k + 1)
    IN IF k > Len(values) THEN [matched |-> FALSE, sig |-> NoSignal, S |-> S]
       ELSE With(CaseValueMatches(prog, S, testVal, values[k]))

\* the clauses in order: [found (0 when none matches), sig, S]
RECURSIVE FindClause(_, _, _, _, _)
FindClause(prog, S, testVal, cases, k) ==
    LET With(m) ==
            IF m.sig # NoSignal THEN [found |-> 0, sig |-> m.sig, S |-> m.S]
            ELSE IF m.matched THEN [found |-> k, sig |-> NoSignal, S |-> m.S]
            ELSE FindClause(prog, m.S, testVal, cases, k + 1)
    IN IF k > Len(cases) THEN [found |-> 0, sig |-> NoSignal, S |-> S]
       ELSE With(ClauseMatches(prog, S, testVal, cases[k].Values, 1))

executeSelectCaseStatement(prog, S, s) ==
    LET Found(c) ==
            IF c.sig # NoSignal THEN Failed(c)
            ELSE [c.S EXCEPT !.goStack = Append(@, BodyFrame("executeSelectCaseStatement",
                                IF c.found = 0 THEN s.CaseElse ELSE s.Cases[c.found].Body,
                                s.Line))]
        With(t) ==
            IF t.sig # NoSignal THEN Failed(t)
            ELSE Found(FindClause(prog, t.S, t.val, s.Cases, 1))
    IN With(Call("evaluate", <<prog, S, s.Expression>>))

\* --------------------------------------------------------------------------
\* Returning from a routine
\* --------------------------------------------------------------------------
\* history record of an activation that has returned
Returned(kind, f, how, S, value) ==
    [kind |-> kind, name |-> f.ctx.Name, how |-> how,
     callerEnv |-> IF kind = "SUB" THEN f.ctx.callerEnv ELSE f.ctx.savedEnv,
     envAfter |-> S.env, stackBefore |-> f.ctx.stackBefore,
     stackAfter |-> S.state.CallStack, value |-> value,
     assigned |-> IF kind = "SUB" THEN NoValue ELSE f.ctx.assigned,
     returned |-> IF kind = "SUB" THEN NoValue ELSE f.ctx.returned]

\* callSub after its body loop (end of body, or break on EXIT SUB): pop a
\* call frame and make its LocalEnv current when it has one
callSubReturn(R, f, how) ==
    LET Done(A) == ReturnNil([A EXCEPT !.calls = Append(@, Returned("SUB", f, how, A, NoValue))])
        With(pop) ==
            Done([R EXCEPT !.state = pop.state,
                           !.env = IF pop.frame.LocalEnv # Nil THEN pop.frame.LocalEnv ELSE @,
                           !.signal = NoSignal])
    IN With(PopCall(R.state))

\* callFunction after its body loop: the return value is read in the
\* current environment, the saved environment is restored, and the value
\* goes back to the expression that made the call
callFunctionReturn(R, f, how) ==
    LET Done(A, retVal) ==
            [A EXCEPT !.calls = Append(@, Returned("FUNCTION", f, how, A, retVal)),
                      !.value = retVal]
        With(got) ==
            Done([R EXCEPT !.env = f.ctx.savedEnv, !.signal = NoSignal],
                 IF got.ok THEN got.val ELSE DefaultValue(f.ctx.ReturnType))
    IN With(Call("EnvGet", <<R.heap, R.env, f.ctx.Name>>))

\* callFunction when a body statement failed: restore and pass the error on
callFunctionFail(R, f) ==
    LET Done(A) == [A EXCEPT !.calls = Append(@, Returned("FUNCTION", f, "error", A, NoValue))]
    IN Done([R EXCEPT !.env = f.ctx.savedEnv])

\* The statement list of the top activation is exhausted
BodyEnd(prog, S) ==
    LET With(f, R) ==
            CASE f.fn = "executeForStatement" -> ForNext(R, f)
              [] f.fn = "executeWhileStatement" -> WhileTest(prog, R, f)
              [] f.fn = "executeDoLoopStatement" -> DoPost(prog, R, f)
              [] f.fn = "callSub" -> callSubReturn(R, f, "end")
              [] f.fn = "callFunction" -> callFunctionReturn(R, f, "end")
              [] OTHER -> ReturnNil(R)
    IN With(Last(S.goStack), [S EXCEPT !.goStack = Front(@)])

\* the loop kind an activation catches EXIT for
Catches(f) ==
    CASE f.fn = "executeForStatement" -> "FOR"
      [] f.fn = "executeWhileStatement" -> "WHILE"
      [] f.fn = "executeDoLoopStatement" -> "DO"
      [] f.fn = "callSub" -> "SUB"
      [] f.fn = "callFunction" -> "FUNCTION"
      [] OTHER -> ""

\* the activations that test for an *ExitError at all
Catching == {"executeForStatement", "executeWhileStatement", "executeDoLoopStatement",
             "callSub", "callFunction"}

\* A body statement returned a non-nil error to the top activation; a panic
\* unwinds the activation without running any of its code
Propagate(S) ==
    LET With(f, R, caught) ==
            CASE f.fn = "callSub" /\ caught -> callSubReturn(R, f, "exit")
              [] f.fn = "callFunction" /\ caught -> callFunctionReturn(R, f, "exit")
              [] f.fn = "callFunction" /\ ~caught /\ S.signal.kind \in {"error", "exit"} ->
                     callFunctionFail(R, f)
              [] f.fn \notin {"callSub", "callFunction"} /\ caught ->
                     ReturnNil([R EXCEPT !.signal = NoSignal])
              [] OTHER -> R
    IN With(Last(S.goStack), [S EXCEPT !.goStack = Front(@)],
            /\ S.signal.kind = "exit"
            /\ Last(S.goStack).fn \in Catching
            /\ S.signal.what = Catches(Last(S.goStack)))

\* --------------------------------------------------------------------------
\* Files.  disk maps a file name to the bytes of the file; an *os.File is an
\* open file description: the name it was opened under, its own offset,
\* whether it was opened with O_APPEND, and whether it may be written.  A
\* *bufio.Reader is the sequence of bytes it has read from the file and not
\* yet handed out; a nil Reader is <<>>, a Reader with buffer b is <<b>>.
\* --------------------------------------------------------------------------
LF == 10
CR == 13
SP == 32
\* the bytes of a file: half the buffer of a bufio.Reader, so that one fill
\* of the buffer reads a file to its end
MaxFile == 2048

\* binary.Write of an int16 (width 2) or int32 (width 4): two's complement,
\* little-endian
LittleEndian(v, width) == [k \in 1..width |-> (v \div Pow(256, k - 1)) % 256]

\* binary.Read into an int16 or int32 from exactly that many bytes
RECURSIVE Unsigned(_, _)
Unsigned(bytes, k) ==
    IF k = 0 THEN 0 ELSE bytes[k] * Pow(256, k - 1) + Unsigned(bytes, k - 1)
FromLittleEndian(bytes) ==
    Unsigned(bytes, Len(bytes) - 1)
        + (IF Last(bytes) >= 128 THEN Last(bytes) - 256 ELSE Last(bytes))
            * Pow(256, Len(bytes) - 1)

\* floor(log2 n) for n >= 1
RECURSIVE Log2(_)
Log2(n) == IF n < 2 THEN 0 ELSE 1 + Log2(n \div 2)

\* the least j with a * 2^j >= d, for 0 < a
RECURSIVE Doublings(_, _)
Doublings(a, d) == IF a >= d THEN 0 ELSE 1 + Doublings(2 * a, d)

\* the binary digits of k in width places, the most significant first
BitsOf(k, width) == [j \in 1..width |-> (k \div Pow(2, width - j)) % 2]

\* the number whose binary digits, the most significant first, are bits
RECURSIVE FromBits(_, _)
FromBits(bits, k) == IF k = 0 THEN 0 ELSE 2 * FromBits(bits, k - 1) + bits[k]

\* the first count binary digits of r/den after the point (0 <= r < den),
\* followed by what is left of r: <<digits, rest>>
RECURSIVE FractionBits(_, _, _, _)
FractionBits(r, den, count, acc) ==
    IF count = 0 THEN <<acc, r>>
    ELSE FractionBits(IF 2 * r >= den THEN 2 * r - den ELSE 2 * r, den, count - 1,
                      Append(acc, IF 2 * r >= den THEN 1 ELSE 0))

\* the binary number bits plus one (the carry out of the first digit is lost)
RECURSIVE PlusOne(_, _)
PlusOne(bits, k) ==
    IF k = 0 THEN bits
    ELSE IF bits[k] = 0 THEN [bits EXCEPT ![k] = 1]
    ELSE PlusOne([bits EXCEPT ![k] = 0], k - 1)

\* The IEEE 754 encoding of the fraction f in a format with expBits exponent
\* digits and fracBits fraction digits: the sign, the exponent plus the bias,
\* the fraction rounded to the nearest, to even on a tie (the values of the
\* model are far from the ends of the exponent range)
FloatBits(f, expBits, fracBits) ==
    LET bias == Pow(2, expBits - 1) - 1
        Rounded(field, q, den) ==
            IF 2 * q[2] > den \/ (2 * q[2] = den /\ Last(q[1]) = 1)
            THEN PlusOne(field \o q[1], Len(field \o q[1]))
            ELSE field \o q[1]
        Scaled(k, num, den) ==
            Rounded(BitsOf(k + bias, expBits), FractionBits(num - den, den, fracBits, <<>>), den)
        Up(a, k) == Scaled(k, a, f.d * Pow(2, k))
        Down(a, j) == Scaled(-j, a * Pow(2, j), f.d)
        Of(a) == IF a >= f.d THEN Up(a, Log2(a \div f.d)) ELSE Down(a, Doublings(a, f.d))
    IN IF f.n = 0
       THEN <<IF f.d < 0 THEN 1 ELSE 0>> \o [j \in 1..(expBits + fracBits) |-> 0]
       ELSE <<IF f.n < 0 THEN 1 ELSE 0>> \o Of(Abs(f.n))

\* the bytes of a word of binary digits, the least significant byte first
BytesOfBits(bits) ==
    [j \in 1..(Len(bits) \div 8) |->
        FromBits(SubSeq(bits, Len(bits) - 8 * j + 1, Len(bits) - 8 * j + 8), 8)]
BitsOfBytes(bytes) ==
    [j \in 1..(8 * Len(bytes)) |->
        BitsOf(bytes[Len(bytes) - ((j - 1) \div 8)], 8)[((j - 1) % 8) + 1]]

\* binary.Write of a float32 / float64 holding the fraction f
Float32Bytes(f) == BytesOfBits(FloatBits(f, 8, 23))
Float64Bytes(f) == BytesOfBits(FloatBits(f, 11, 52))

\* binary.Read of a float the model has no fraction for (a denormal, an
\* infinity, a NaN, a number out of the range): the value is kept by its
\* bytes, and no computation follows it
OtherFloat(dt, bytes) == [type |-> dt, val |-> 0, den |-> 0, bits |-> bytes]

\* the float a word of binary digits encodes: [ok, n, d].  len is the place
\* of the last 1 among the fraction digits, x the exponent
FloatOfBits(bits, expBits, fracBits) ==
    LET NotOk == [ok |-> FALSE, n |-> 0, d |-> 1]
        frac == SubSeq(bits, expBits + 2, Len(bits))
        ones == {j \in 1..fracBits : frac[j] = 1}
        Within(n, d) == IF Abs(n) <= MaxInt THEN [ok |-> TRUE, n |-> n, d |-> d] ELSE NotOk
        Valued(sign, x, m, len) ==
            IF x >= len
            THEN (IF x + 1 > BitLength(MaxInt) THEN NotOk
                  ELSE Within(sign * m * Pow(2, x - len), 1))
            ELSE IF len + 1 > BitLength(MaxInt) \/ len - x >= BitLength(MaxDen) THEN NotOk
            ELSE Within(sign * m, Pow(2, len - x))
        Normal(sign, x, len) ==
            IF len + 1 > BitLength(MaxInt) THEN NotOk
            ELSE Valued(sign, x, Pow(2, len) + FromBits(frac, len), len)
        With(sign, field, len) ==
            IF field = 0 /\ len = 0 THEN [ok |-> TRUE, n |-> 0, d |-> sign]
            ELSE IF field = 0 \/ field = Pow(2, expBits) - 1 THEN NotOk
            ELSE Normal(sign, field - (Pow(2, expBits - 1) - 1), len)
    IN With(IF bits[1] = 1 THEN -1 ELSE 1, FromBits(SubSeq(bits, 2, expBits + 1), expBits),
            IF ones = {} THEN 0 ELSE CHOOSE j \in ones : \A i \in ones : i <= j)

\* binary.Read into a float32 / float64 from exactly that many bytes
FromFloat32(bytes) ==
    LET With(f) ==
            IF f.ok THEN [type |-> "SINGLE", val |-> f.n, den |-> f.d]
            ELSE OtherFloat("SINGLE", bytes)
    IN With(FloatOfBits(BitsOfBytes(bytes), 8, 23))
FromFloat64(bytes) ==
    LET With(f) ==
            IF f.ok THEN [type |-> "DOUBLE", val |-> f.n, den |-> f.d]
            ELSE OtherFloat("DOUBLE", bytes)
    IN With(FloatOfBits(BitsOfBytes(bytes), 11, 52))

\* Interpreter.formatValue
formatValue(v) ==
    IF v.type = "STRING" THEN v.val
    ELSE IF v.val >= 0 THEN <<SP>> \o Call("ValueString", <<v>>) ELSE Call("ValueString", <<v>>)

\* the bytes of a file from offset off on, at most n of them
ReadAt(content, off, n) ==
    IF off >= Len(content) THEN <<>>
    ELSE SubSeq(content, off + 1, Least(Len(content), off + n))

\* the file after a write of bytes at offset off (a gap is filled with
\* zeros; a write of no bytes changes nothing)
WriteAt(content, off, bytes) ==
    IF bytes = <<>> THEN content
    ELSE [k \in 1..Max(Len(content), off + Len(bytes)) |->
             IF k > off /\ k <= off + Len(bytes) THEN bytes[k - off]
             ELSE IF k <= Len(content) THEN content[k] ELSE 0]

OsFile(path, append, writable) ==
    [path |-> path, offset |-> 0, append |-> append, writable |-> writable]

FileHandle(name, mode, file) ==
    [Name |-> name, Mode |-> mode, File |-> file, Reader |-> <<>>, RecLen |-> 128,
     Position |-> 0]

\* A statement fetches the *FileHandle of a file number from the table once
\* (fh, exists := i.files[fileNum]) and keeps that pointer while it evaluates
\* its operands.  A FUNCTION called by an operand can CLOSE the number, and
\* OPEN it again as another handle: the statement then goes on with the
\* handle it fetched, whose File is closed.  S.closed lists the handles that
\* File.Close was called on while the statement at hand executes, each with
\* its number.  Fetched is the pointer: the number and how many handles had
\* been closed at the fetch
Fetched(S, fileNum) == [n |-> fileNum, since |-> Len(S.closed)]

\* the place in S.closed of the handle h points to, 0 when it is still the
\* one in the table: the first handle closed under its number since the fetch
ClosedAt(S, h) ==
    LET With(later) ==
            IF later = {} THEN 0 ELSE CHOOSE j \in later : \A i \in later : j <= i
    IN With({j \in (h.since + 1)..Len(S.closed) : S.closed[j].n = h.n})
IsClosed(S, h) == ClosedAt(S, h) # 0

\* *fh, and an assignment to it
Held(S, h) == IF IsClosed(S, h) THEN S.closed[ClosedAt(S, h)].fh ELSE S.files[h.n]
Keep(S, h, fh) ==
    IF IsClosed(S, h) THEN [S EXCEPT !.closed[ClosedAt(S, h)].fh = fh]
    ELSE [S EXCEPT !.files[h.n] = fh]

\* a map without the key k
Without(m, k) == [x \in DOMAIN m \ {k} |-> m[x]]

\* File.Close on the handle of number n, and delete(i.files, n)
Shut(S, n) ==
    [S EXCEPT !.files = Without(@, n),
              !.closed = Append(@, [n |-> n, fh |-> S.files[n]])]

\* the *PathError of a call on a closed File
AlreadyClosed(op, fh) ==
    ErrorOf(op \o " " \o Call("TextOf", <<fh.File.path>>) \o ": file already closed")

\* File.Write / File.WriteString on the handle h: the interpreter afterwards,
\* its signal telling the error.  A closed File refuses every write.  A write
\* of no bytes leaves the file and the offset as they are.  A file longer
\* than MaxFile is not followed, and neither is a write of no bytes to a file
\* opened for reading only
FileWrite(S, h, bytes) ==
    LET With(f, at) ==
            IF ~f.writable
            THEN (IF bytes = <<>> THEN [S EXCEPT !.signal = Beyond]
                  ELSE [S EXCEPT !.signal =
                           ErrorOf("write " \o Call("TextOf", <<f.path>>) \o ": bad file descriptor")])
            ELSE IF bytes = <<>> THEN S
            ELSE IF at + Len(bytes) > MaxFile THEN [S EXCEPT !.signal = Beyond]
            ELSE [S EXCEPT !.disk[f.path] = WriteAt(@, at, bytes),
                           !.files[h.n].File.offset = at + Len(bytes)]
        Open(fh) ==
            With(fh.File, IF fh.File.append THEN Len(S.disk[fh.File.path]) ELSE fh.File.offset)
    IN IF IsClosed(S, h) THEN [S EXCEPT !.signal = AlreadyClosed("write", Held(S, h))]
       ELSE Open(S.files[h.n])

\* a statement that ends with a write
Wrote(T) == IF T.signal # NoSignal THEN T ELSE ReturnNil(T)

\* File.Read of up to count bytes on the handle h: [bytes, sig, S], sig the
\* error of a closed File
FileRead(S, h, count) ==
    LET With(bytes) ==
            [bytes |-> bytes, sig |-> NoSignal,
             S |-> [S EXCEPT !.files[h.n].File.offset = @ + Len(bytes)]]
        Open(fh) == With(ReadAt(S.disk[fh.File.path], fh.File.offset, count))
    IN IF IsClosed(S, h)
       THEN [bytes |-> <<>>, sig |-> AlreadyClosed("read", Held(S, h)), S |-> S]
       ELSE Open(S.files[h.n])

\* File.Seek(pos, 0) on the handle h: [sig, S]
FileSeek(S, h, pos) ==
    IF IsClosed(S, h) THEN [sig |-> AlreadyClosed("seek", Held(S, h)), S |-> S]
    ELSE IF pos < 0
    THEN [sig |-> ErrorOf("seek " \o Call("TextOf", <<S.files[h.n].File.path>>) \o ": invalid argument"),
          S |-> S]
    ELSE [sig |-> NoSignal, S |-> [S EXCEPT !.files[h.n].File.offset = pos]]

\* Reader.ReadByte on the handle h, whose Reader is not nil: [ok, sig, b, S],
\* ok telling that a byte was read, sig the error when it is not io.EOF.  The
\* bytes of the buffer are handed out whether the File is closed or not; an
\* empty buffer is filled from the File first
ReadByte(S, h) ==
    LET Took(T, fh) ==
            [ok |-> TRUE, sig |-> NoSignal, b |-> Head(fh.Reader[1]),
             S |-> Keep(T, h, [fh EXCEPT !.Reader = <<Tail(@[1])>>])]
        Filled(r) ==
            IF r.bytes = <<>> THEN [ok |-> FALSE, sig |-> r.sig, b |-> 0, S |-> r.S]
            ELSE Took(r.S, [Held(r.S, h) EXCEPT !.Reader = <<r.bytes>>])
    IN IF Held(S, h).Reader[1] # <<>> THEN Took(S, Held(S, h))
       ELSE Filled(FileRead(S, h, 4096))

\* Reader.UnreadByte after a ReadByte that gave b
UnreadByte(S, h, b) == Keep(S, h, [Held(S, h) EXCEPT !.Reader = <<<<b>> \o @[1]>>])

\* Reader.ReadString('\n') on the handle h, whose Reader is not nil and whose
\* File is open: [line, S].  The Reader fills its buffer from the file when
\* the buffer holds no delimiter; at the end of the file the rest is the line.
RECURSIVE ReadString(_, _)
ReadString(S, h) ==
    LET buf == S.files[h.n].Reader[1]
        Cut(at) ==
            [line |-> SubSeq(buf, 1, at),
             S |-> [S EXCEPT !.files[h.n].Reader = <<SubSeq(buf, at + 1, Len(buf))>>]]
        Filled(r) ==
            IF r.bytes = <<>>
            THEN [line |-> buf, S |-> [r.S EXCEPT !.files[h.n].Reader = <<<<>>>>]]
            ELSE ReadString([r.S EXCEPT !.files[h.n].Reader = <<buf \o r.bytes>>], h)
    IN IF IndexByte(buf, LF) > 0 THEN Cut(IndexByte(buf, LF))
       ELSE Filled(FileRead(S, h, 4096 - Len(buf)))

\* "file #%d not open" and its kin
FileError(n, what) == ErrorOf("file #" \o Call("IntText", <<n>>) \o what)

\* The disk of the model is one directory of regular files whose names are
\* of printable characters.  A path elsewhere is not followed
PathBeyond(name) ==
    \/ ~Printable(name)
    \/ \E k \in 1..Len(name) : name[k] = 47
    \/ name \in {<<46>>, <<46, 46>>}

\* os.Open / os.Create / os.OpenFile as OPEN calls them: [sig, disk, file]
OpenFile(dk, name, mode) ==
    LET Refusal(sig) == [sig |-> sig, disk |-> dk, file |-> OsFile(name, FALSE, FALSE)]
    IN IF mode \notin {"INPUT", "OUTPUT", "APPEND", "BINARY", "RANDOM"}
       THEN Refusal(ErrorOf("invalid file mode: " \o mode))
       ELSE IF PathBeyond(name) THEN Refusal(Beyond)
       ELSE IF name = <<>> \/ (mode = "INPUT" /\ name \notin DOMAIN dk)
       THEN Refusal(ErrorOf("cannot open file: open " \o Call("TextOf", <<name>>)
                            \o ": no such file or directory"))
       ELSE CASE mode = "INPUT" ->
                    [sig |-> NoSignal, disk |-> dk, file |-> OsFile(name, FALSE, FALSE)]
              [] mode = "OUTPUT" ->
                    [sig |-> NoSignal, disk |-> (name :> <<>>) @@ dk,
                     file |-> OsFile(name, FALSE, TRUE)]
              [] mode = "APPEND" ->
                    [sig |-> NoSignal, disk |-> dk @@ (name :> <<>>),
                     file |-> OsFile(name, TRUE, TRUE)]
              [] OTHER ->
                    [sig |-> NoSignal, disk |-> dk @@ (name :> <<>>),
                     file |-> OsFile(name, FALSE, TRUE)]

\* executeOpenStatement from the mode switch on: the file number is free
OpenAs(prog, S, s, name, fileNum) ==
    LET Enter(T, fh) == ReturnNil([T EXCEPT !.files = (fileNum :> fh) @@ @])
        WithLen(fh, r) ==
            IF r.sig # NoSignal THEN Failed(r)
            ELSE Enter(r.S, [fh EXCEPT !.RecLen = Call("ToInt", <<r.val>>)])
        Opened(T, fh) ==
            IF s.RecLen # NoExpr THEN WithLen(fh, Call("evaluate", <<prog, T, s.RecLen>>))
            ELSE Enter(T, fh)
        Handle(o) ==
            [FileHandle(name, Call("ToUpper", <<s.Mode>>), o.file) EXCEPT
                !.Reader = IF Call("ToUpper", <<s.Mode>>) = "INPUT" THEN <<<<>>>> ELSE <<>>]
        With(o) ==
            IF o.sig # NoSignal THEN ReturnErr(S, o.sig)
            ELSE Opened([S EXCEPT !.disk = o.disk], Handle(o))
    IN With(OpenFile(S.disk, name, Call("ToUpper", <<s.Mode>>)))

\* an OPEN that does not look the file number up in the table
executeOpenStatementUnchecked(prog, S, s) ==
    LET WithNum(name, r) ==
            IF r.sig # NoSignal THEN Failed(r)
            ELSE OpenAs(prog, r.S, s, name, Call("ToInt", <<r.val>>))
        WithName(r) ==
            IF r.sig # NoSignal THEN Failed(r)
            ELSE WithNum(Call("ValueString", <<r.val>>), Call("evaluate", <<prog, r.S, s.FileNum>>))
    IN WithName(Call("evaluate", <<prog, S, s.Filename>>))

executeOpenStatement(prog, S, s) ==
    LET WithNum(name, r) ==
            IF r.sig # NoSignal THEN Failed(r)
            ELSE IF Call("ToInt", <<r.val>>) \in DOMAIN r.S.files
            THEN ReturnErr(r.S, Call("FileError", <<Call("ToInt", <<r.val>>), " already open">>))
            ELSE OpenAs(prog, r.S, s, name, Call("ToInt", <<r.val>>))
        WithName(r) ==
            IF r.sig # NoSignal THEN Failed(r)
            ELSE WithNum(Call("ValueString", <<r.val>>), Call("evaluate", <<prog, r.S, s.FileNum>>))
    IN WithName(Call("evaluate", <<prog, S, s.Filename>>))

\* the loop of executeCloseStatement over the file numbers from k on
RECURSIVE CloseFiles(_, _, _, _)
CloseFiles(prog, S, fileNums, k) ==
    LET With(r) ==
            IF r.sig # NoSignal THEN Failed(r)
            ELSE IF Call("ToInt", <<r.val>>) \notin DOMAIN r.S.files
            THEN ReturnErr(r.S, Call("FileError", <<Call("ToInt", <<r.val>>), " not open">>))
            ELSE CloseFiles(prog, Shut(r.S, Call("ToInt", <<r.val>>)), fileNums, k + 1)
    IN IF k > Len(fileNums) THEN ReturnNil(S)
       ELSE With(Call("evaluate", <<prog, S, fileNums[k]>>))

\* the loop of executeCloseStatement over the whole table
RECURSIVE CloseAll(_)
CloseAll(S) ==
    IF DOMAIN S.files = {} THEN S
    ELSE CloseAll(Shut(S, CHOOSE n \in DOMAIN S.files : \A m \in DOMAIN S.files : n <= m))

executeCloseStatement(prog, S, s) ==
    IF Len(s.FileNums) = 0 THEN ReturnNil(CloseAll(S))
    ELSE CloseFiles(prog, S, s.FileNums, 1)

\* the item loop of executePrintStatement and executePrintFileStatement:
\* [out, col, sig, S]
PrintItems(prog, S, items, k, out, col) ==
    LET Separated(T, out2, col2) ==
            IF items[k].Separator = ","
            THEN Call("PrintItems", <<prog, T, items, k + 1,
                            out2 \o [j \in 1..(14 - (col2 % 14)) |-> SP],
                            col2 + (14 - (col2 % 14))>>)
            ELSE Call("PrintItems", <<prog, T, items, k + 1, out2, col2>>)
        With(r) ==
            IF r.sig # NoSignal THEN [out |-> out, col |-> col, sig |-> r.sig, S |-> r.S]
            ELSE Separated(r.S, out \o Call("formatValue", <<r.val>>), col + Len(Call("formatValue", <<r.val>>)))
    IN IF k > Len(items) THEN [out |-> out, col |-> col, sig |-> NoSignal, S |-> S]
       ELSE IF items[k].Expression # NoExpr THEN With(Call("evaluate", <<prog, S, items[k].Expression>>))
       ELSE Separated(S, out, col)

\* the handle is fetched before the items are evaluated
executePrintFileStatement(prog, S, s) ==
    LET Written(h, p) ==
            IF p.sig # NoSignal THEN Failed(p)
            ELSE Wrote(FileWrite(p.S, h, IF s.NoNewline THEN p.out ELSE p.out \o <<LF>>))
        With(r) ==
            IF r.sig # NoSignal THEN Failed(r)
            ELSE IF Call("ToInt", <<r.val>>) \notin DOMAIN r.S.files
            THEN ReturnErr(r.S, Call("FileError", <<Call("ToInt", <<r.val>>), " not open">>))
            ELSE IF r.S.files[Call("ToInt", <<r.val>>)].Mode \notin {"OUTPUT", "APPEND", "BINARY", "RANDOM"}
            THEN ReturnErr(r.S, Call("FileError", <<Call("ToInt", <<r.val>>), " not open for output">>))
            ELSE Written(Fetched(r.S, Call("ToInt", <<r.val>>)), Call("PrintItems", <<prog, r.S, s.Items, 1, <<>>, 0>>))
    IN With(Call("evaluate", <<prog, S, s.FileNum>>))

\* the value INPUT stores for the text of a field: the text for a string,
\* else what Sscanf reads in it, coerced; [val, beyond]
InputValue(dt, text) ==
    LET Coerced(v) ==
            [val |-> v, beyond |-> v.type \in {"SINGLE", "DOUBLE"} /\ v.den = 0]
        With(f) ==
            IF IsNaF(f) THEN [val |-> NoValue, beyond |-> TRUE]
            ELSE Coerced(Call("CoerceValue", <<DoubleOf(f), dt>>))
    IN IF dt = "STRING" THEN [val |-> StringValue(text), beyond |-> FALSE]
       ELSE With(Call("Sscanf", <<text>>))

\* the switch of INPUT on one target, with the text of its field: the
\* interpreter afterwards, its signal telling the error.  A refusal of
\* Array.Set is not looked at
InputTarget(prog, S, target, text) ==
    LET Scalar(v) ==
            IF v.beyond THEN ReturnErr(S, Beyond)
            ELSE [S EXCEPT !.heap = EnvSet(@, S.env, target.Name, v.val)]
        Element(v) ==
            LET Set(r) == IF r.sig # NoSignal /\ ~r.range THEN Failed(r) ELSE r.S
            IN IF v.beyond /\ Call("GetArray", <<S.heap, S.env, target.Function>>).ok
               THEN ReturnErr(S, Beyond)
               ELSE Set(Call("SetElement", <<prog, S, target.Function, target.Arguments, v.val>>))
    IN CASE target.node = "Identifier" -> Scalar(Call("InputValue", <<inferType(target.Name), text>>))
         [] target.node = "CallExpr" ->
                Element(IF Call("GetArray", <<S.heap, S.env, target.Function>>).ok
                        THEN Call("InputValue", <<Call("GetArray", <<S.heap, S.env, target.Function>>).arr.DataType,
                                        text>>)
                        ELSE [val |-> NoValue, beyond |-> FALSE])
         [] OTHER -> S

\* the first loop of executeInputFileStatement for one field: spaces and
\* tabs are read over.  An error of the read that is not io.EOF is the
\* error of the statement
RECURSIVE SkipBlanks(_, _)
SkipBlanks(S, h) ==
    LET With(r) ==
            IF r.sig # NoSignal THEN ReturnErr(r.S, r.sig)
            ELSE IF ~r.ok THEN r.S
            ELSE IF r.b \in {32, 9} THEN SkipBlanks(r.S, h)
            ELSE UnreadByte(r.S, h, r.b)
    IN With(ReadByte(S, h))

\* the second loop: the bytes up to a comma, a line feed, a carriage return
\* (and the line feed after it) or the end of the file; [text, S].  Each
\* byte is appended as the character of that number.  The error of the read
\* after a carriage return is not looked at
RECURSIVE ReadField(_, _, _)
ReadField(S, h, acc) ==
    LET AfterCR(r) == IF r.ok /\ r.b # LF THEN UnreadByte(r.S, h, r.b) ELSE r.S
        With(r) ==
            IF r.sig # NoSignal THEN [text |-> acc, S |-> ReturnErr(r.S, r.sig)]
            ELSE IF ~r.ok THEN [text |-> acc, S |-> r.S]
            ELSE IF r.b = CR THEN [text |-> acc, S |-> AfterCR(ReadByte(r.S, h))]
            ELSE IF r.b \in {44, LF} THEN [text |-> acc, S |-> r.S]
            ELSE ReadField(r.S, h, acc \o RuneString(r.b))
    IN IF S.signal # NoSignal THEN [text |-> acc, S |-> S]
       ELSE With(ReadByte(S, h))

\* the loop of executeInputFileStatement over the targets from k on, with the
\* handle fetched before it
RECURSIVE InputFields(_, _, _, _, _)
InputFields(prog, S, h, variables, k) ==
    LET Stored(C) ==
            IF C.signal # NoSignal THEN C ELSE InputFields(prog, C, h, variables, k + 1)
        With(f) ==
            IF f.S.signal # NoSignal THEN f.S
            ELSE Stored(Call("InputTarget", <<prog, f.S, variables[k], Call("TrimSpace", <<f.text>>)>>))
    IN IF k > Len(variables) THEN ReturnNil(S)
       ELSE With(ReadField(SkipBlanks(S, h), h, <<>>))

executeInputFileStatement(prog, S, s) ==
    LET Ready(T, n) ==
            InputFields(prog,
                        IF T.files[n].Reader = <<>>
                        THEN [T EXCEPT !.files[n].Reader = <<<<>>>>] ELSE T,
                        Fetched(T, n), s.Variables, 1)
        With(r) ==
            IF r.sig # NoSignal THEN Failed(r)
            ELSE IF Call("ToInt", <<r.val>>) \notin DOMAIN r.S.files
            THEN ReturnErr(r.S, Call("FileError", <<Call("ToInt", <<r.val>>), " not open">>))
            ELSE IF r.S.files[Call("ToInt", <<r.val>>)].Mode \notin {"INPUT", "BINARY", "RANDOM"}
            THEN ReturnErr(r.S, Call("FileError", <<Call("ToInt", <<r.val>>), " not open for input">>))
            ELSE Ready(r.S, Call("ToInt", <<r.val>>))
    IN With(Call("evaluate", <<prog, S, s.FileNum>>))

executeLineInputFileStatement(prog, S, s) ==
    LET Stored(T, line) ==
            IF s.Variable.node = "Identifier"
            THEN ReturnNil([T EXCEPT !.heap =
                                EnvSet(@, T.env, s.Variable.Name, StringValue(line))])
            ELSE ReturnNil(T)
        Line(l) == Stored(l.S, TrimRight(l.line, {CR, LF}))
        Ready(T, n) ==
            Line(ReadString(IF T.files[n].Reader = <<>>
                            THEN [T EXCEPT !.files[n].Reader = <<<<>>>>] ELSE T,
                            Fetched(T, n)))
        With(r) ==
            IF r.sig # NoSignal THEN Failed(r)
            ELSE IF Call("ToInt", <<r.val>>) \notin DOMAIN r.S.files
            THEN ReturnErr(r.S, Call("FileError", <<Call("ToInt", <<r.val>>), " not open">>))
            ELSE IF r.S.files[Call("ToInt", <<r.val>>)].Mode \notin {"INPUT", "BINARY"}
            THEN ReturnErr(r.S, Call("FileError", <<Call("ToInt", <<r.val>>), " not open for input">>))
            ELSE Ready(r.S, Call("ToInt", <<r.val>>))
    IN With(Call("evaluate", <<prog, S, s.FileNum>>))

\* the byte offset of the 1-based position pos on the handle fh: [beyond,
\* off]; an offset beyond the integers of the model is not followed
Offset(fh, pos) ==
    IF fh.Mode # "RANDOM" THEN [beyond |-> FALSE, off |-> pos - 1]
    ELSE IF Fits(pos - 1, fh.RecLen) THEN [beyond |-> FALSE, off |-> (pos - 1) * fh.RecLen]
    ELSE [beyond |-> TRUE, off |-> 0]

\* the seek that GET, PUT and SEEK make on the handle h they fetched:
\* [sig, S]
SeekTo(S, h, pos) ==
    LET With(o) ==
            IF o.beyond /\ ~IsClosed(S, h) THEN [sig |-> Beyond, S |-> S]
            ELSE FileSeek(S, h, o.off)
    IN With(Offset(Held(S, h), pos))

\* the part GET and PUT share: the file number, the fetch of the handle, the
\* access mode, the optional position, which is evaluated after the fetch.
\* [sig, h, S]
Positioned(prog, S, s) ==
    LET None == [n |-> 0, since |-> 0]
        Sought(h, k) == [sig |-> k.sig, h |-> h, S |-> k.S]
        WithPos(h, r) ==
            IF r.sig # NoSignal THEN [sig |-> r.sig, h |-> h, S |-> r.S]
            ELSE Sought(h, SeekTo(r.S, h, Call("ToInt", <<r.val>>)))
        With(r) ==
            IF r.sig # NoSignal THEN [sig |-> r.sig, h |-> None, S |-> r.S]
            ELSE IF Call("ToInt", <<r.val>>) \notin DOMAIN r.S.files
            THEN [sig |-> Call("FileError", <<Call("ToInt", <<r.val>>), " not open">>), h |-> None, S |-> r.S]
            ELSE IF r.S.files[Call("ToInt", <<r.val>>)].Mode \notin {"BINARY", "RANDOM"}
            THEN [sig |-> Call("FileError", <<Call("ToInt", <<r.val>>), " not open for binary/random access">>),
                  h |-> None, S |-> r.S]
            ELSE IF s.Position # NoExpr
            THEN WithPos(Fetched(r.S, Call("ToInt", <<r.val>>)), Call("evaluate", <<prog, r.S, s.Position>>))
            ELSE [sig |-> NoSignal, h |-> Fetched(r.S, Call("ToInt", <<r.val>>)), S |-> r.S]
    IN With(Call("evaluate", <<prog, S, s.FileNum>>))

\* binary.Read of a value of the given kind: the zero value when the file
\* has fewer bytes left than the kind is wide
GetValue(dt, bytes) ==
    CASE dt = "INTEGER" -> IntegerValue(IF Len(bytes) = 2 THEN FromLittleEndian(bytes) ELSE 0)
      [] dt = "LONG" -> LongValue(IF Len(bytes) = 4 THEN FromLittleEndian(bytes) ELSE 0)
      [] dt = "SINGLE" -> IF Len(bytes) = 4 THEN FromFloat32(bytes) ELSE SingleValue(0)
      [] dt = "STRING" -> StringValue(TrimRight(bytes, {0}))
      [] OTHER -> IF Len(bytes) = 8 THEN FromFloat64(bytes) ELSE DoubleValue(0)

\* the number of bytes GET asks the file for
GetWidth(dt, recLen) ==
    CASE dt = "INTEGER" -> 2
      [] dt \in {"LONG", "SINGLE"} -> 4
      [] dt = "STRING" -> recLen
      [] OTHER -> 8

\* make([]byte, fh.RecLen) panics on a negative length.  The errors of the
\* reads are not looked at: a read that fails leaves the zero value
executeGetStatement(prog, S, s) ==
    LET Stored(r) ==
            ReturnNil([r.S EXCEPT !.heap =
                EnvSet(@, r.S.env, s.Variable.Name,
                       GetValue(inferType(s.Variable.Name), r.bytes))])
        With(p) ==
            IF p.sig # NoSignal THEN Failed(p)
            ELSE IF s.Variable.node # "Identifier" THEN ReturnNil(p.S)
            ELSE IF inferType(s.Variable.Name) = "STRING" /\ Held(p.S, p.h).RecLen < 0
            THEN ReturnErr(p.S, Panic(MakeslicePanic))
            ELSE Stored(FileRead(p.S, p.h,
                                 GetWidth(inferType(s.Variable.Name), Held(p.S, p.h).RecLen)))
    IN With(Call("Positioned", <<prog, S, s>>))

\* the bytes PUT writes for a value: by the kind of the value
PutBytes(v, recLen) ==
    CASE v.type = "INTEGER" -> LittleEndian(v.val, 2)
      [] v.type = "LONG" -> LittleEndian(v.val, 4)
      [] v.type = "SINGLE" -> Float32Bytes([n |-> v.val, d |-> v.den])
      [] v.type = "DOUBLE" -> Float64Bytes([n |-> v.val, d |-> v.den])
      [] v.type = "STRING" ->
            [k \in 1..recLen |-> IF k <= Len(v.val) THEN v.val[k] ELSE 0]
      [] OTHER -> <<>>

\* the errors of the writes of PUT are not looked at, that of a File closed
\* while the value was evaluated among them
executePutStatement(prog, S, s) ==
    LET Put(T) == IF T.signal.kind = "error" THEN [T EXCEPT !.signal = NoSignal] ELSE T
        Bytes(h, T, v, fh) ==
            IF v.type = "STRING" /\ fh.RecLen < 0 THEN ReturnErr(T, Panic(MakeslicePanic))
            ELSE IF v.type = "STRING" /\ fh.RecLen > MaxFile THEN ReturnErr(T, Beyond)
            ELSE Wrote(Put(FileWrite(T, h, PutBytes(v, fh.RecLen))))
        Written(h, r) ==
            IF r.sig # NoSignal THEN Failed(r) ELSE Bytes(h, r.S, r.val, Held(r.S, h))
        With(p) ==
            IF p.sig # NoSignal THEN Failed(p)
            ELSE IF s.Variable # NoExpr THEN Written(p.h, Call("evaluate", <<prog, p.S, s.Variable>>))
            ELSE ReturnNil(p.S)
    IN With(Call("Positioned", <<prog, S, s>>))

\* executeSeekStatement: no test of the mode, and the position is evaluated,
\* after the fetch of the handle, whether the statement has one or not
executeSeekStatement(prog, S, s) ==
    LET Sought(k) == IF k.sig # NoSignal THEN Failed(k) ELSE ReturnNil(k.S)
        WithPos(h, r) ==
            IF r.sig # NoSignal THEN Failed(r)
            ELSE Sought(SeekTo(r.S, h, Call("ToInt", <<r.val>>)))
        With(r) ==
            IF r.sig # NoSignal THEN Failed(r)
            ELSE IF Call("ToInt", <<r.val>>) \notin DOMAIN r.S.files
            THEN ReturnErr(r.S, Call("FileError", <<Call("ToInt", <<r.val>>), " not open">>))
            ELSE WithPos(Fetched(r.S, Call("ToInt", <<r.val>>)), Call("evaluate", <<prog, r.S, s.Position>>))
    IN With(Call("evaluate", <<prog, S, s.FileNum>>))

\* the file functions of evaluateCallExpr, which come after the arrays and
\* the user-defined functions of that name: [val, sig, S].  Reader.Peek(1)
\* fills an empty buffer from the file.
evaluateFileFunction(prog, S, name, e) ==
    LET Peeked(n, r) ==
            IF r.bytes = <<>> THEN Ok(IntegerValue(-1), r.S)
            ELSE Ok(IntegerValue(0), [r.S EXCEPT !.files[n].Reader = <<r.bytes>>])
        AtEnd(T, n) ==
            IF T.files[n].Reader = <<>> \/ T.files[n].Reader # <<<<>>>>
            THEN Ok(IntegerValue(0), T)
            ELSE Peeked(n, FileRead(T, Fetched(T, n), 4096))
        Size(T, n) == Ok(LongValue(Int32(Len(T.disk[T.files[n].File.path]))), T)
        Location(T, n) ==
            IF T.files[n].Mode # "RANDOM" THEN Ok(LongValue(Int32(T.files[n].File.offset)), T)
            ELSE IF T.files[n].RecLen = 0 THEN Fail(Panic(DividePanic), T)
            ELSE Ok(LongValue(Int32(GoDiv(T.files[n].File.offset, T.files[n].RecLen))), T)
        With(r) ==
            IF r.sig # NoSignal THEN r
            ELSE IF Call("ToInt", <<r.val>>) \notin DOMAIN r.S.files
            THEN Fail(Call("FileError", <<Call("ToInt", <<r.val>>), " not open">>), r.S)
            ELSE CASE name = "EOF" -> AtEnd(r.S, Call("ToInt", <<r.val>>))
                   [] name = "LOF" -> Size(r.S, Call("ToInt", <<r.val>>))
                   [] OTHER -> Location(r.S, Call("ToInt", <<r.val>>))
    IN IF Len(e.Arguments) < 1 THEN Err(name \o " requires 1 argument", S)
       ELSE With(Call("evaluate", <<prog, S, e.Arguments[1]>>))

\* --------------------------------------------------------------------------
\* The console.  The host gives the interpreter an output function, which
\* appends to its output text, and an input function, which hands out the
\* lines typed; with no line left the input is the empty string.  No Screen
\* is ever set, so that the statements of the screen evaluate their
\* arguments and draw nothing
\* --------------------------------------------------------------------------
print(S, s) == [S EXCEPT !.host.output = @ \o s]

\* getInput: [line, S]
getInput(S, prompt) ==
    IF S.host.input = <<>> THEN [line |-> <<>>, S |-> S]
    ELSE [line |-> Head(S.host.input), S |-> [S EXCEPT !.host.input = Tail(@)]]

executePrintStatement(prog, S, s) ==
    LET With(p) ==
            IF p.sig # NoSignal THEN Failed(p)
            ELSE ReturnNil(print(p.S, IF s.NoNewline THEN p.out ELSE p.out \o <<LF>>))
    IN With(Call("PrintItems", <<prog, S, s.Items, 1, <<>>, 0>>))

\* strings.Split(s, ","): the fields between the commas, one at least
RECURSIVE Split(_, _)
Split(s, sep) ==
    IF IndexByte(s, sep) = 0 THEN <<s>>
    ELSE <<SubSeq(s, 1, IndexByte(s, sep) - 1)>>
         \o Split(SubSeq(s, IndexByte(s, sep) + 1, Len(s)), sep)

\* the loop of executeInputStatement over the targets from k on
RECURSIVE InputValues(_, _, _, _, _)
InputValues(prog, S, variables, values, k) ==
    LET Stored(C) ==
            IF C.signal # NoSignal THEN C
            ELSE InputValues(prog, C, variables, values, k + 1)
    IN IF k > Len(variables) \/ k > Len(values) THEN ReturnNil(S)
       ELSE Stored(Call("InputTarget", <<prog, S, variables[k], Call("TrimSpace", <<values[k]>>)>>))

executeInputStatement(prog, S, s) ==
    LET With(g) == InputValues(prog, g.S, s.Variables, Split(g.line, 44), 1)
    IN With(getInput(S, IF s.Prompt # NoExpr THEN s.Prompt.Value ELSE <<63, 32>>))

executeLineInputStatement(prog, S, s) ==
    LET With(g) ==
            IF s.Variable.node = "Identifier"
            THEN ReturnNil([g.S EXCEPT !.heap =
                                EnvSet(@, g.S.env, s.Variable.Name, StringValue(g.line))])
            ELSE ReturnNil(g.S)
    IN With(getInput(S, IF s.Prompt # NoExpr THEN s.Prompt.Value ELSE <<>>))

executeOnGotoStatement(prog, S, s) ==
    LET With(r) ==
            IF r.sig # NoSignal THEN Failed(r)
            ELSE IF Call("ToInt", <<r.val>>) >= 1 /\ Call("ToInt", <<r.val>>) <= Len(s.Targets)
            THEN executeGotoStatement(prog, r.S, GotoStmt(0, s.Targets[Call("ToInt", <<r.val>>)]))
            ELSE ReturnNil(r.S)
    IN With(Call("evaluate", <<prog, S, s.Expression>>))

executeOnGosubStatement(prog, S, s) ==
    LET With(r) ==
            IF r.sig # NoSignal THEN Failed(r)
            ELSE IF Call("ToInt", <<r.val>>) >= 1 /\ Call("ToInt", <<r.val>>) <= Len(s.Targets)
            THEN executeGosubStatement(prog, r.S, GosubStmt(0, s.Targets[Call("ToInt", <<r.val>>)]))
            ELSE ReturnNil(r.S)
    IN With(Call("evaluate", <<prog, S, s.Expression>>))

\* the arguments of a statement of the screen, evaluated one after the
\* other up to the first error; those the statement does not have are nil
Arguments(exprs) == SelectSeq(exprs, LAMBDA e : e # NoExpr)
Evaluated(r) == IF r.sig # NoSignal THEN Failed(r) ELSE ReturnNil(r.S)

executeClsStatement(S) == ReturnNil(S)

executeLocateStatement(prog, S, s) ==
    Evaluated(Call("evaluateArgs", <<prog, S, Arguments(<<s.Row, s.Column>>), 1>>))

executeColorStatement(prog, S, s) ==
    Evaluated(Call("evaluateArgs", <<prog, S, Arguments(<<s.Foreground, s.Background>>), 1>>))

executeScreenStatement(S, s) == ReturnNil(S)

executeSleepStatement(S, s) == ReturnNil(S)

executeBeepStatement(S) == ReturnNil(print(S, <<7>>))

\* the seed goes to the generator of the built-ins, whose numbers the model
\* draws from the host: with any seed, any numbers
executeRandomizeStatement(prog, S, s) ==
    Evaluated(Call("evaluateArgs", <<prog, S, Arguments(<<s.Seed>>), 1>>))

\* drawPixel, and with it drawLine and drawCircle, returns at once without a
\* Screen
executePsetStatement(prog, S, s) ==
    Evaluated(Call("evaluateArgs", <<prog, S, <<s.X, s.Y>> \o Arguments(<<s.Color>>), 1>>))

executeLineGraphicsStatement(prog, S, s) ==
    Evaluated(Call("evaluateArgs", <<prog, S, <<s.X1, s.Y1, s.X2, s.Y2>> \o Arguments(<<s.Color>>), 1>>))

executeCircleStatement(prog, S, s) ==
    Evaluated(Call("evaluateArgs", <<prog, S, <<s.X, s.Y, s.Radius>> \o Arguments(<<s.Color>>), 1>>))

\* --------------------------------------------------------------------------
\* PRINT USING.  fmt's %f and %E round the exact decimal expansion of the
\* float to the digits asked for, a tie towards the even digit
\* --------------------------------------------------------------------------
\* strconv's decimal.Round(nd) on the digits of a float
RoundedDecimal(dec, nd) ==
    LET Trimmed(ds) ==
            IF ds = <<>> THEN [digits |-> <<>>, dp |-> 0] ELSE [digits |-> ds, dp |-> dec.dp]
        below == {i \in 1..nd : dec.digits[i] < 57}
        Bumped(i) ==
            [digits |-> SubSeq(dec.digits, 1, i - 1) \o <<dec.digits[i] + 1>>, dp |-> dec.dp]
        shouldRoundUp ==
            IF dec.digits[nd + 1] = 53 /\ nd + 1 = Len(dec.digits)
            THEN nd > 0 /\ (dec.digits[nd] - 48) % 2 # 0
            ELSE dec.digits[nd + 1] >= 53
    IN IF nd < 0 \/ nd >= Len(dec.digits) THEN dec
       ELSE IF ~shouldRoundUp THEN Trimmed(StripZerosRight(SubSeq(dec.digits, 1, nd)))
       ELSE IF below = {} THEN [digits |-> <<49>>, dp |-> dec.dp + 1]
       ELSE Bumped(CHOOSE i \in below : \A j \in below : j <= i)

\* fmt.Sprintf("%.*f", prec, f)
FixedF(f, prec) ==
    LET With(dec) ==
            (IF Negative(f) THEN <<45>> ELSE <<>>)
            \o (IF dec.dp > 0
                THEN [k \in 1..dec.dp |-> IF k <= Len(dec.digits) THEN dec.digits[k] ELSE 48]
                ELSE <<48>>)
            \o (IF prec > 0
                THEN <<46>> \o [k \in 1..prec |->
                                   IF dec.dp + k >= 1 /\ dec.dp + k <= Len(dec.digits)
                                   THEN dec.digits[dec.dp + k] ELSE 48]
                ELSE <<>>)
    IN With(RoundedDecimal(Call("Decimal", <<f>>), Call("Decimal", <<f>>).dp + prec))

\* fmt.Sprintf("%.*E", prec, f)
FixedE(f, prec) ==
    LET Exponent(x) ==
            <<69, IF x < 0 THEN 45 ELSE 43>>
            \o (IF Abs(x) < 10 THEN <<48>> ELSE <<>>) \o Digits(Abs(x))
        With(dec) ==
            (IF Negative(f) THEN <<45>> ELSE <<>>)
            \o <<IF dec.digits = <<>> THEN 48 ELSE dec.digits[1]>>
            \o (IF prec > 0
                THEN <<46>> \o [k \in 1..prec |->
                                   IF k + 1 <= Len(dec.digits) THEN dec.digits[k + 1] ELSE 48]
                ELSE <<>>)
            \o Exponent(IF dec.digits = <<>> THEN 0 ELSE dec.dp - 1)
    IN With(RoundedDecimal(Call("Decimal", <<f>>), prec + 1))

\* the padding of fmt's %*: spaces on the left up to the width
PadLeft(s, width) == [k \in 1..(width - Len(s)) |-> SP] \o s

\* strings.Count of one byte
Count(s, b) == Cardinality({k \in 1..Len(s) : s[k] = b})

formatNumeric(format, val) ==
    LET cleaned == SelectSeq(format, LAMBDA b : b \notin {36, 42, 43, 45, 94})
        decPos == IndexByte(cleaned, 46)
        decDigits ==
            IF decPos > 0 THEN Count(SubSeq(cleaned, decPos, Len(cleaned)), 35) ELSE 0
        intDigits == Count(cleaned, 35) - decDigits
        Asterisks(r) ==
            IF Count(format, 42) > 0 THEN [k \in 1..Len(r) |-> IF r[k] = SP THEN 42 ELSE r[k]]
            ELSE r
        Dollar(r) ==
            Asterisks(IF Count(format, 36) > 0 THEN <<36>> \o TrimLeft(r, {SP}) ELSE r)
        MinusSign(r) ==
            Dollar(IF Last(format) = 45 /\ Call("Less", <<val, Zero>>)
                   THEN (IF r # <<>> /\ r[1] = 45 THEN Tail(r) ELSE r) \o <<45>>
                   ELSE r)
        PlusSign(r) ==
            MinusSign(IF Count(format, 43) > 0 /\ ~Call("Less", <<val, Zero>>) THEN <<43>> \o r ELSE r)
    IN IF Index(format, <<94, 94, 94, 94>>) >= 0 THEN PlusSign(FixedE(val, decDigits))
       ELSE IF decPos > 0
       THEN PlusSign(PadLeft(FixedF(val, decDigits), intDigits + decDigits + 1))
       ELSE PlusSign(PadLeft(FixedF(val, 0), intDigits))

formatWithTemplate(format, val) ==
    IF Count(format, 35) > 0 THEN Call("formatNumeric", <<format, Call("ToFloat", <<val>>)>>)
    ELSE IF format # <<>> /\ format[1] = 92 /\ Last(format) = 92
    THEN (IF Len(Call("ValueString", <<val>>)) > Len(format)
          THEN SubSeq(Call("ValueString", <<val>>), 1, Len(format))
          ELSE Call("ValueString", <<val>>)
               \o [k \in 1..(Len(format) - Len(Call("ValueString", <<val>>))) |-> SP])
    ELSE IF format = <<33>>
    THEN (IF Len(Call("ValueString", <<val>>)) > 0 THEN RuneString(Call("ValueString", <<val>>)[1]) ELSE <<SP>>)
    ELSE Call("ValueString", <<val>>)

\* the item loop of executePrintUsingStatement: [out, sig, S]
RECURSIVE UsingItems(_, _, _, _, _, _)
UsingItems(prog, S, format, items, k, out) ==
    LET With(r) ==
            IF r.sig # NoSignal THEN [out |-> out, sig |-> r.sig, S |-> r.S]
            ELSE UsingItems(prog, r.S, format, items, k + 1,
                            out \o Call("formatWithTemplate", <<format, r.val>>))
    IN IF k > Len(items) THEN [out |-> out, sig |-> NoSignal, S |-> S]
       ELSE IF items[k].Expression # NoExpr THEN With(Call("evaluate", <<prog, S, items[k].Expression>>))
       ELSE UsingItems(prog, S, format, items, k + 1, out)

\* the file number is looked at after the items; the file is written
\* whatever its mode
executePrintUsingStatement(prog, S, s) ==
    LET ToFile(out, r) ==
            IF r.sig # NoSignal THEN Failed(r)
            ELSE IF Call("ToInt", <<r.val>>) \notin DOMAIN r.S.files
            THEN ReturnErr(r.S, Call("FileError", <<Call("ToInt", <<r.val>>), " not open">>))
            ELSE Wrote(FileWrite(r.S, Fetched(r.S, Call("ToInt", <<r.val>>)), out))
        Out(T, out) ==
            IF s.FileNum # NoExpr THEN ToFile(out, Call("evaluate", <<prog, T, s.FileNum>>))
            ELSE ReturnNil(print(T, out))
        Items(p) ==
            IF p.sig # NoSignal THEN Failed(p)
            ELSE Out(p.S, IF s.NoNewline THEN p.out ELSE p.out \o <<LF>>)
        With(f) ==
            IF f.sig # NoSignal THEN Failed(f)
            ELSE Items(UsingItems(prog, f.S, Call("ValueString", <<f.val>>), s.Items, 1, <<>>))
    IN With(Call("evaluate", <<prog, S, s.Format>>))

\* --------------------------------------------------------------------------
\* executeStatement
\* --------------------------------------------------------------------------
executeStatement(prog, S, s) ==
    CASE s.type \in {"LineNumberStmt", "LabelStmt", "DataStmt", "RemStmt"} -> ReturnNil(S)
      [] s.type = "LetStmt" -> executeLetStatement(prog, S, s)
      [] s.type = "PrintStmt" -> executePrintStatement(prog, S, s)
      [] s.type = "InputStmt" -> executeInputStatement(prog, S, s)
      [] s.type = "DimStmt" -> executeDimStatement(prog, S, s)
      [] s.type = "IfStmt" -> executeIfStatement(prog, S, s)
      [] s.type = "ForStmt" -> executeForStatement(prog, S, s)
      [] s.type = "WhileStmt" -> executeWhileStatement(prog, S, s)
      [] s.type = "DoLoopStmt" -> executeDoLoopStatement(prog, S, s)
      [] s.type = "SelectCaseStmt" -> executeSelectCaseStatement(prog, S, s)
      [] s.type = "GotoStmt" -> executeGotoStatement(prog, S, s)
      [] s.type = "GosubStmt" -> executeGosubStatement(prog, S, s)
      [] s.type = "ReturnStmt" -> executeReturnStatement(prog, S, s)
      [] s.type = "ExitStmt" -> executeExitStatement(S, s)
      [] s.type = "SubStatement" -> skipSubDefinition(prog, S)
      [] s.type = "FuncStatement" -> skipFunctionDefinition(prog, S)
      [] s.type = "CallStmt" -> executeCallStatement(prog, S, s)
      [] s.type = "SubCallStmt" -> executeSubCallStatement(prog, S, s)
      [] s.type = "ReadStmt" -> executeReadStatement(prog, S, s)
      [] s.type = "RestoreStmt" -> executeRestoreStatement(prog, S, s)
      [] s.type = "ClsStmt" -> executeClsStatement(S)
      [] s.type = "LocateStmt" -> executeLocateStatement(prog, S, s)
      [] s.type = "ColorStmt" -> executeColorStatement(prog, S, s)
      [] s.type = "ScreenStmt" -> executeScreenStatement(S, s)
      [] s.type = "EndStmt" -> ReturnNil([S EXCEPT !.state.Running = FALSE])
      [] s.type = "SleepStmt" -> executeSleepStatement(S, s)
      [] s.type = "BeepStmt" -> executeBeepStatement(S)
      [] s.type = "SwapStmt" -> executeSwapStatement(prog, S, s)
      [] s.type = "RandomizeStmt" -> executeRandomizeStatement(prog, S, s)
      [] s.type = "ConstStmt" -> executeConstStatement(prog, S, s)
      [] s.type = "OpenStmt" -> executeOpenStatement(prog, S, s)
      [] s.type = "CloseStmt" -> executeCloseStatement(prog, S, s)
      [] s.type = "PrintFileStmt" -> executePrintFileStatement(prog, S, s)
      [] s.type = "InputFileStmt" -> executeInputFileStatement(prog, S, s)
      [] s.type = "LineInputStmt" -> executeLineInputStatement(prog, S, s)
      [] s.type = "OnGotoStmt" -> executeOnGotoStatement(prog, S, s)
      [] s.type = "OnGosubStmt" -> executeOnGosubStatement(prog, S, s)
      [] s.type = "LineInputFileStmt" -> executeLineInputFileStatement(prog, S, s)
      [] s.type = "GetStmt" -> executeGetStatement(prog, S, s)
      [] s.type = "PutStmt" -> executePutStatement(prog, S, s)
      [] s.type = "SeekStmt" -> executeSeekStatement(prog, S, s)
      [] s.type = "RedimStmt" -> executeRedimStatement(prog, S, s)
      [] s.type = "PrintUsingStmt" -> Call("executePrintUsingStatement", <<prog, S, s>>)
      [] s.type = "PsetStmt" -> executePsetStatement(prog, S, s)
      [] s.type = "LineGraphicsStmt" -> executeLineGraphicsStatement(prog, S, s)
      [] s.type = "CircleStmt" -> executeCircleStatement(prog, S, s)
      [] OTHER -> ReturnErr(S, ErrorOf("unknown statement type: *ast." \o s.type))

\* --------------------------------------------------------------------------
\* The steps of the machine, as functions of the interpreter
\* --------------------------------------------------------------------------
\* the innermost callSub / callFunction activation (0 at module level)
RECURSIVE RoutineAt(_, _)
RoutineAt(gs, k) ==
    IF k = 0 THEN 0
    ELSE IF gs[k].fn \in {"callSub", "callFunction"} THEN k
    ELSE RoutineAt(gs, k - 1)

\* history: what executeStatement was called on, and in which situation
Entry(S, stmt, S2) ==
    [Line |-> stmt.Line, type |-> stmt.type, pc |-> S.state.ProgramCounter,
     depth |-> Len(S.goStack),
     routine |-> IF RoutineAt(S.goStack, Len(S.goStack)) = 0 THEN ""
                 ELSE S.goStack[RoutineAt(S.goStack, Len(S.goStack))].fn,
     running |-> S.state.Running, env |-> S.env, stack |-> S.state.CallStack,
     ok |-> S2.signal = NoSignal, error |-> S2.signal.what, pcAfter |-> S2.state.ProgramCounter,
     stackAfter |-> S2.state.CallStack, envAfter |-> S2.env,
     target |-> IF "Target" \in DOMAIN stmt THEN stmt.Target ELSE "",
     heapSame |-> S2.heap = S.heap,
     stmt |-> stmt, heap |-> S.heap, heapAfter |-> S2.heap,
     dataPointer |-> S.state.DataPointer, dataPointerAfter |-> S2.state.DataPointer,
     stateSame |-> S2.state = S.state,
     files |-> S.files, filesAfter |-> S2.files, disk |-> S.disk, diskAfter |-> S2.disk,
     hasValue |-> "Value" \in DOMAIN stmt /\ stmt.type = "ReturnStmt" /\ stmt.Value # NoExpr]

\* the entry of a statement that has not returned yet
Pending(S, stmt) == [Line |-> stmt.Line, type |-> stmt.type, depth |-> Len(S.goStack)]

\* history: an assignment to the name of the function whose body is running
\* is the latest value assigned to its return slot, and the value of a
\* RETURN expression the latest value returned
Noted(prog, S, stmt, S2) ==
    LET Value(r) == IF r.sig = NoSignal THEN r.val ELSE NoValue
        With(k) ==
            IF k = 0 \/ S.goStack[k].fn # "callFunction" \/ Len(S2.goStack) < k THEN S2
            ELSE IF /\ stmt.type = "LetStmt" /\ stmt.Name.node = "Identifier"
                    /\ S2.signal = NoSignal
                    /\ S.goStack[k].ctx.Name = Call("ToUpper", <<stmt.Name.Name>>)
            THEN [S2 EXCEPT !.goStack[k].ctx.assigned = Value(Call("evaluate", <<prog, S, stmt.Value>>))]
            ELSE IF stmt.type = "ReturnStmt" /\ stmt.Value # NoExpr
            THEN [S2 EXCEPT !.goStack[k].ctx.returned = Value(Call("evaluate", <<prog, S, stmt.Value>>))]
            ELSE S2
    IN With(RoutineAt(S.goStack, Len(S.goStack)))

\* one call of executeStatement, with its entry in the history.  The entry
\* is made when the statement begins, before those of the statements that
\* run inside it, and completed when it returns; a run of more than MaxSteps
\* statements is not followed
Dispatch(prog, S, stmt) ==
    LET Executed(k, S2) ==
            IF S2.signal.kind = "beyond" THEN S2
            ELSE IF ~S.recording THEN Noted(prog, S, stmt, S2)
            ELSE [Noted(prog, S, stmt, S2) EXCEPT !.trace[k] = Entry(S, stmt, S2)]
    IN IF S.recording /\ Len(S.trace) >= MaxSteps THEN [S EXCEPT !.signal = Beyond]
       ELSE Executed(Len(S.trace) + 1,
                     Call("executeStatement", <<prog,
                                      IF S.recording
                                      THEN [S EXCEPT !.trace = Append(@, Pending(S, stmt))]
                                      ELSE S,
                                      stmt>>))

\* one step of the activation on top: it passes an error on, ends its
\* statement list, or executes its next statement
MachineStep(prog, S) ==
    LET With(top) ==
            IF top.idx > Len(top.body) THEN Call("BodyEnd", <<prog, S>>)
            ELSE Call("Dispatch", <<prog, [S EXCEPT !.goStack[Len(S.goStack)].idx = @ + 1],
                          top.body[top.idx]>>)
    IN IF S.signal # NoSignal THEN Call("Propagate", <<S>>) ELSE With(Last(S.goStack))

\* the body loop of callFunction and all that runs inside it, until the
\* activations above depth have returned
RunBody(prog, S, depth, fuel) ==
    IF S.signal.kind = "beyond" \/ Len(S.goStack) <= depth THEN S
    ELSE IF fuel = 0 THEN [S EXCEPT !.signal = Beyond]
    ELSE Call("RunBody", <<prog, Call("MachineStep", <<prog, S>>), depth, fuel - 1>>)

\* --------------------------------------------------------------------------
\* The parser (internal/parser/parser.go), on the token stream the lexer
\* produces.  A Parser is the sequence of tokens from curToken on (the stream
\* ends with EOF, which the lexer repeats), the number of messages appended
\* to errors, and whether a loop that nothing ends has been entered.
\* Fields of the nodes that nothing in the repository reads are left out
\* (Static, SingleLine, ByVal, Comment, the Line of an expression).
\* --------------------------------------------------------------------------
Tok(type, lit, line) == [Type |-> type, Literal |-> lit, Line |-> line]

\* parser.New on the tokens of a source
NewParser(toks) == [toks |-> toks, errors |-> 0, hang |-> FALSE, beyond |-> FALSE]

curToken(p) == p.toks[1]
peekToken(p) == IF Len(p.toks) > 1 THEN p.toks[2] ELSE p.toks[1]

\* Parser.nextToken
nextToken(p) == IF Len(p.toks) > 1 THEN [p EXCEPT !.toks = Tail(@)] ELSE p

curTokenIs(p, type) == curToken(p).Type = type
peekTokenIs(p, type) == peekToken(p).Type = type

\* Parser.peekError, Parser.noPrefixParseFnError and the two literal parsers
\* append one message
peekError(p) == [p EXCEPT !.errors = @ + 1]
noPrefixParseFnError(p) == [p EXCEPT !.errors = @ + 1]
literalError(p) == [p EXCEPT !.errors = @ + 1]

\* Parser.expectPeek: [ok, p]
expectPeek(p, type) ==
    IF peekTokenIs(p, type) THEN [ok |-> TRUE, p |-> nextToken(p)]
    ELSE [ok |-> FALSE, p |-> peekError(p)]

\* strings.Replace(s, old, new, 1) for single bytes
Replace1(s, old, new) ==
    IF \E k \in 1..Len(s) : s[k] = old
    THEN [s EXCEPT ![CHOOSE k \in 1..Len(s) : s[k] = old /\ \A j \in 1..(k - 1) : s[j] # old]
                        = new]
    ELSE s

\* strconv.Atoi, whose error parseStatement drops: 0 for what is no number
Atoi(lit) == Call("ParseInt", <<Call("BytesOf", <<lit>>)>>)

NoStmt == [type |-> "nil", Line |-> 0]
Parsed(stmt, p) == [stmt |-> stmt, p |-> p]
Expr(expr, p) == [expr |-> expr, p |-> p]

\* the precedence levels of precedence.go
LOWEST == 1
NEGATE == 13
precedences(type) ==
    CASE type = "IMP" -> 2
      [] type = "EQV" -> 3
      [] type = "XOR" -> 4
      [] type = "OR" -> 5
      [] type = "AND" -> 6
      [] type \in {"EQ", "NE", "LT", "GT", "LE", "GE"} -> 8
      [] type \in {"PLUS", "MINUS"} -> 9
      [] type = "MOD" -> 10
      [] type = "BACKSLASH" -> 11
      [] type \in {"ASTERISK", "SLASH"} -> 12
      [] type = "CARET" -> 14
      [] type = "LPAREN" -> 15
      [] OTHER -> LOWEST

peekPrecedence(p) == precedences(peekToken(p).Type)
curPrecedence(p) == precedences(curToken(p).Type)

tokenToOperator(type) ==
    CASE type = "PLUS" -> "+"
      [] type = "MINUS" -> "-"
      [] type = "ASTERISK" -> "*"
      [] type = "SLASH" -> "/"
      [] type = "BACKSLASH" -> "\\"
      [] type = "CARET" -> "^"
      [] type = "MOD" -> "MOD"
      [] type = "EQ" -> "="
      [] type = "NE" -> "<>"
      [] type = "LT" -> "<"
      [] type = "GT" -> ">"
      [] type = "LE" -> "<="
      [] type = "GE" -> ">="
      [] type = "AND" -> "AND"
      [] type = "OR" -> "OR"
      [] type = "XOR" -> "XOR"
      [] type = "EQV" -> "EQV"
      [] type = "IMP" -> "IMP"
      [] type = "NOT" -> "NOT"
      [] OTHER -> ""

\* Parser.parseExpression(precedence): [expr (NoExpr for nil), p], curToken
\* left on the last token of the expression

\* the loops of parseIdentifier, parseCallStatement (which end on ) or EOF)
\* and parseDataStatement (which ends on NEWLINE or EOF): an expression,
\* a comma if one follows, the next token.  [list, p]
RECURSIVE parseUntil(_, _, _)
parseUntil(p, ends, list) ==
    LET With(a) ==
            parseUntil(nextToken(IF peekTokenIs(a.p, "COMMA") THEN nextToken(a.p) ELSE a.p),
                       ends, IF a.expr = NoExpr THEN list ELSE Append(list, a.expr))
    IN IF curToken(p).Type \in ends THEN [list |-> list, p |-> p]
       ELSE With(Call("parseExpression", <<p, LOWEST>>))

\* the loops of parseReadStatement, parseInputStatement (NEWLINE or EOF) and
\* of a call without parentheses (NEWLINE, EOF or COLON): an expression,
\* and the loop goes on only over a comma.  [list, p]
RECURSIVE parseWhileComma(_, _, _)
parseWhileComma(p, ends, list) ==
    LET Comma(a, l) ==
            IF peekTokenIs(a.p, "COMMA") THEN parseWhileComma(nextToken(nextToken(a.p)), ends, l)
            ELSE [list |-> l, p |-> a.p]
        With(a) == Comma(a, IF a.expr = NoExpr THEN list ELSE Append(list, a.expr))
    IN IF curToken(p).Type \in ends THEN [list |-> list, p |-> p]
       ELSE With(Call("parseExpression", <<p, LOWEST>>))

\* Parser.parseIdentifier
parseIdentifier(p) ==
    LET Made(a) == Expr(CallExpr(curToken(p).Literal, a.list), a.p)
    IN IF peekTokenIs(p, "LPAREN")
       THEN Made(parseUntil(nextToken(nextToken(p)), {"RPAREN", "EOF"}, <<>>))
       ELSE Expr(Identifier(curToken(p).Literal), p)

\* Parser.parseIntegerLiteral
parseIntegerLiteral(p) ==
    LET With(value) ==
            IF ~value.ok THEN Expr(NoExpr, literalError(p))
            ELSE IF value.beyond THEN Expr(NoExpr, [p EXCEPT !.beyond = TRUE])
            ELSE Expr(IntegerLiteral(value.n), p)
    IN With(ParseIntErr(TrimRight(Call("BytesOf", <<curToken(p).Literal>>), {37, 38, 33, 35})))

\* Parser.parseFloatLiteral.  A literal whose float64 is none of the model
\* (among them the literals out of range, which strconv refuses) is not
\* followed
parseFloatLiteral(p) ==
    LET Made(f) == Expr([FloatLiteral(curToken(p).Literal, 0, 1) EXCEPT !.Value = f], p)
        With(value) ==
            IF ~value.ok THEN Expr(NoExpr, literalError(p))
            ELSE IF IsNaF(value.f) THEN Expr(NoExpr, [p EXCEPT !.beyond = TRUE])
            ELSE Made(value.f)
    IN With(Call("ParseFloatErr", <<Replace1(Replace1(TrimRight(Call("BytesOf", <<curToken(p).Literal>>), {33, 35}),
                                            68, 69),
                                   100, 101)>>))

\* Parser.parseStringLiteral
parseStringLiteral(p) == Expr(StringLiteral(Call("BytesOf", <<curToken(p).Literal>>)), p)

\* Parser.parsePrefixExpression
parsePrefixExpression(p) ==
    LET With(r) == Expr(UnaryExpr(tokenToOperator(curToken(p).Type), r.expr), r.p)
    IN With(Call("parseExpression", <<nextToken(p), NEGATE>>))

\* Parser.parseInfixExpression, curToken on the operator
parseInfixExpression(p, left) ==
    LET With(r) == Expr(BinaryExpr(tokenToOperator(curToken(p).Type), left, r.expr), r.p)
    IN With(Call("parseExpression", <<nextToken(p),
                                  IF curTokenIs(p, "CARET") THEN curPrecedence(p) - 1
                                  ELSE curPrecedence(p)>>))

\* Parser.parseGroupedExpression
parseGroupedExpression(p) ==
    LET Closed(exp, x) ==
            IF x.ok THEN Expr(GroupedExpr(exp), x.p) ELSE Expr(NoExpr, x.p)
        With(e) == Closed(e.expr, Call("expectPeek", <<e.p, "RPAREN">>))
    IN With(Call("parseExpression", <<nextToken(p), LOWEST>>))

\* the loop of parseExpressionList over the commas: [list, p]
RECURSIVE parseListRest(_, _)
parseListRest(p, list) ==
    LET With(e) == parseListRest(e.p, Append(list, e.expr))
    IN IF peekTokenIs(p, "COMMA")
       THEN With(Call("parseExpression", <<nextToken(nextToken(p)), LOWEST>>))
       ELSE [list |-> list, p |-> p]

\* Parser.parseExpressionList: [list, p]
parseExpressionList(p, end) ==
    LET Ended(l, x) == [list |-> IF x.ok THEN l.list ELSE <<>>, p |-> x.p]
        Rest(l) == Ended(l, Call("expectPeek", <<l.p, end>>))
        First(e) == Rest(parseListRest(e.p, <<e.expr>>))
    IN IF peekTokenIs(p, end) THEN [list |-> <<>>, p |-> nextToken(p)]
       ELSE First(Call("parseExpression", <<nextToken(p), LOWEST>>))

\* Parser.parseCallExpression, curToken on the (
parseCallExpression(p, function) ==
    LET Made(l) == Expr(CallExpr(function.Name, l.list), l.p)
    IN IF function.node # "Identifier" THEN Expr(function, p)
       ELSE Made(parseExpressionList(p, "RPAREN"))

\* the token types with a prefix parse function, and with an infix one
PrefixTokens == {"IDENT", "INTEGER", "FLOAT", "STRING", "MINUS", "NOT", "LPAREN"}
InfixTokens ==
    {"PLUS", "MINUS", "ASTERISK", "SLASH", "BACKSLASH", "CARET", "MOD", "EQ", "NE", "LT",
     "GT", "LE", "GE", "AND", "OR", "XOR", "EQV", "IMP", "LPAREN"}

parsePrefix(p) ==
    CASE curTokenIs(p, "IDENT") -> parseIdentifier(p)
      [] curTokenIs(p, "INTEGER") -> parseIntegerLiteral(p)
      [] curTokenIs(p, "FLOAT") -> parseFloatLiteral(p)
      [] curTokenIs(p, "STRING") -> parseStringLiteral(p)
      [] curTokenIs(p, "MINUS") \/ curTokenIs(p, "NOT") -> parsePrefixExpression(p)
      [] curTokenIs(p, "LPAREN") -> parseGroupedExpression(p)

\* the loop of parseExpression over the infix operators that bind tighter
\* than precedence
RECURSIVE parseInfix(_, _)
parseInfix(left, precedence) ==
    LET With(l) == parseInfix(l, precedence)
    IN IF \/ peekTokenIs(left.p, "NEWLINE") \/ peekTokenIs(left.p, "EOF")
          \/ precedence >= peekPrecedence(left.p)
          \/ peekToken(left.p).Type \notin InfixTokens
       THEN left
       ELSE IF peekTokenIs(left.p, "LPAREN")
       THEN With(parseCallExpression(nextToken(left.p), left.expr))
       ELSE With(parseInfixExpression(nextToken(left.p), left.expr))

parseExpression(p, precedence) ==
    LET With(left) == parseInfix(left, precedence)
    IN IF curToken(p).Type \notin PrefixTokens THEN Expr(NoExpr, noPrefixParseFnError(p))
       ELSE With(Call("parsePrefix", <<p>>))

\* Parser.parseDataType
parseDataType(p) ==
    CASE curTokenIs(p, "INTEGER_TYPE") -> "INTEGER"
      [] curTokenIs(p, "LONG_TYPE") -> "LONG"
      [] curTokenIs(p, "SINGLE_TYPE") -> "SINGLE"
      [] curTokenIs(p, "DOUBLE_TYPE") -> "DOUBLE"
      [] curTokenIs(p, "STRING_TYPE") -> "STRING"
      [] OTHER -> "UNKNOWN"


\* Parser.parseLetStatement: the name is parsed as an expression, which takes
\* the = and the value with it
parseLetStatement(p) ==
    LET Valued(name, v) == Parsed(LetTarget(curToken(p).Line, name.expr, v.expr), v.p)
        Eq(name, x) ==
            IF ~x.ok THEN Parsed(NoStmt, x.p)
            ELSE Valued(name, Call("parseExpression", <<nextToken(x.p), LOWEST>>))
        With(name) == Eq(name, Call("expectPeek", <<name.p, "EQ">>))
    IN With(Call("parseExpression", <<nextToken(p), LOWEST>>))

\* Parser.parsePrintItems, and the same loop in parsePrintUsingRest:
\* [items, noNewline, p]
RECURSIVE parsePrintItems(_, _, _)
parsePrintItems(p, items, noNewline) ==
    LET Sep(s) == IF items = <<>> THEN items ELSE [items EXCEPT ![Len(items)].Separator = s]
        With(e) ==
            parsePrintItems(nextToken(e.p),
                            IF e.expr = NoExpr THEN items ELSE Append(items, PrintItem(e.expr, "")),
                            IF e.expr = NoExpr THEN noNewline ELSE FALSE)
    IN IF curToken(p).Type \in {"NEWLINE", "EOF", "COLON"}
       THEN [items |-> items, noNewline |-> noNewline, p |-> p]
       ELSE IF curTokenIs(p, "SEMICOLON") THEN parsePrintItems(nextToken(p), Sep(";"), TRUE)
       ELSE IF curTokenIs(p, "COMMA") THEN parsePrintItems(nextToken(p), Sep(","), TRUE)
       ELSE With(Call("parseExpression", <<p, LOWEST>>))

\* Parser.parsePrintUsingRest, curToken on USING
parsePrintUsingRest(p, line, fileNum) ==
    LET Items(f, i) == Parsed(PrintUsingStmt(line, fileNum, f.expr, i.items, i.noNewline), i.p)
        With(f) ==
            Items(f, parsePrintItems(nextToken(IF peekTokenIs(f.p, "SEMICOLON")
                                               THEN nextToken(f.p) ELSE f.p), <<>>, FALSE))
    IN With(Call("parseExpression", <<nextToken(p), LOWEST>>))

\* Parser.parsePrintStatement
parsePrintStatement(p) ==
    LET line == curToken(p).Line
        ToFile(n, i) == Parsed(PrintFileStmt(line, n.expr, i.items, i.noNewline), i.p)
        Comma(n, x) ==
            IF ~x.ok THEN Parsed(NoStmt, x.p)
            ELSE IF curTokenIs(nextToken(x.p), "USING")
            THEN parsePrintUsingRest(nextToken(x.p), line, n.expr)
            ELSE ToFile(n, parsePrintItems(nextToken(x.p), <<>>, FALSE))
        File(n) == Comma(n, Call("expectPeek", <<n.p, "COMMA">>))
        Plain(i) == Parsed(PrintStmt(line, i.items, i.noNewline), i.p)
    IN IF peekTokenIs(p, "HASH")
       THEN File(Call("parseExpression", <<nextToken(nextToken(p)), LOWEST>>))
       ELSE IF curTokenIs(nextToken(p), "USING")
       THEN parsePrintUsingRest(nextToken(p), line, NoExpr)
       ELSE Plain(parsePrintItems(nextToken(p), <<>>, FALSE))

\* the prompt of parseInputStatement and parseLineStatement, curToken on the
\* token after INPUT: [prompt, p]
parsePrompt(p) ==
    LET After(q) ==
            IF curTokenIs(q, "SEMICOLON") \/ curTokenIs(q, "COMMA") THEN nextToken(q) ELSE q
    IN IF curTokenIs(p, "STRING")
       THEN [prompt |-> StringLiteral(Call("BytesOf", <<curToken(p).Literal>>)), p |-> After(nextToken(p))]
       ELSE [prompt |-> NoExpr, p |-> p]

\* Parser.parseInputStatement
parseInputStatement(p) ==
    LET line == curToken(p).Line
        FromFile(n, v) == Parsed(InputFileStmt(line, n.expr, v.list), v.p)
        Comma(n, x) ==
            IF ~x.ok THEN Parsed(NoStmt, x.p)
            ELSE FromFile(n, parseWhileComma(nextToken(x.p), {"NEWLINE", "EOF"}, <<>>))
        File(n) == Comma(n, Call("expectPeek", <<n.p, "COMMA">>))
        Vars(pr, v) == Parsed(InputStmt(line, pr.prompt, v.list), v.p)
        Prompted(pr) == Vars(pr, parseWhileComma(pr.p, {"NEWLINE", "EOF"}, <<>>))
    IN IF peekTokenIs(p, "HASH")
       THEN File(Call("parseExpression", <<nextToken(nextToken(p)), LOWEST>>))
       ELSE Prompted(parsePrompt(nextToken(p)))

\* the loop `for !p.curTokenIs(lexer.TOKEN_RPAREN)` of parseDimStatement and
\* parseRedimStatement: [dims, p].  At EOF every iteration appends nil and a
\* message and leaves curToken on EOF: the loop does not end.
RECURSIVE parseDimensions(_, _)
parseDimensions(p, dims) ==
    LET With(e) ==
            parseDimensions(nextToken(IF peekTokenIs(e.p, "COMMA") THEN nextToken(e.p)
                                      ELSE e.p), Append(dims, e.expr))
    IN IF curTokenIs(p, "RPAREN") THEN [dims |-> dims, p |-> p]
       ELSE IF curTokenIs(p, "EOF") THEN [dims |-> dims, p |-> [p EXCEPT !.hang = TRUE]]
       ELSE With(Call("parseExpression", <<p, LOWEST>>))

\* the loop of parseDimStatement and parseRedimStatement over the
\* declarations: [vars, p]
parseDimVariables(p, decls) ==
    LET Typed(q) ==
            IF peekTokenIs(q, "AS")
            THEN [DataType |-> parseDataType(nextToken(nextToken(q))),
                  p |-> nextToken(nextToken(q))]
            ELSE [DataType |-> "UNKNOWN", p |-> q]
        Comma(q, vs) ==
            IF peekTokenIs(q, "COMMA") THEN Call("parseDimVariables", <<nextToken(nextToken(q)), vs>>)
            ELSE [vars |-> vs, p |-> q]
        Var(d, t) ==
            Comma(t.p, Append(decls, [Name |-> curToken(p).Literal, Dimensions |-> d.dims,
                                    DataType |-> t.DataType]))
        With(d) == Var(d, Typed(d.p))
    IN IF peekTokenIs(p, "LPAREN")
       THEN With(parseDimensions(nextToken(nextToken(p)), <<>>))
       ELSE With([dims |-> <<>>, p |-> p])

\* Parser.parseDimStatement
parseDimStatement(p) ==
    LET line == curToken(p).Line
        Vars(shared, static, v) ==
            Parsed([DimStmt(line, v.vars, shared) EXCEPT !.Static = static], v.p)
        Static(shared, q) ==
            IF curTokenIs(q, "STATIC") THEN Vars(shared, TRUE, Call("parseDimVariables", <<nextToken(q), <<>>>>))
            ELSE Vars(shared, FALSE, Call("parseDimVariables", <<q, <<>>>>))
    IN IF curTokenIs(nextToken(p), "SHARED") THEN Static(TRUE, nextToken(nextToken(p)))
       ELSE Static(FALSE, nextToken(p))

\* Parser.parseRedimStatement
parseRedimStatement(p) ==
    LET line == curToken(p).Line
        Vars(preserve, v) == Parsed(RedimStmt(line, preserve, v.vars), v.p)
    IN IF curTokenIs(nextToken(p), "PRESERVE")
       THEN Vars(TRUE, Call("parseDimVariables", <<nextToken(nextToken(p)), <<>>>>))
       ELSE Vars(FALSE, Call("parseDimVariables", <<nextToken(p), <<>>>>))

\* the loops over the statements of a block, which end when curToken is one
\* of ends or EOF (the consequence and the alternative of a multi-line IF,
\* the bodies of a CASE and of CASE ELSE): [body, p]
parseBlock(p, ends, body) ==
    LET With(r) ==
            Call("parseBlock", <<nextToken(r.p), ends,
                       IF r.stmt = NoStmt THEN body ELSE Append(body, r.stmt)>>)
    IN IF curToken(p).Type \in ends \/ curTokenIs(p, "EOF") THEN [body |-> body, p |-> p]
       ELSE With(Call("parseStatement", <<p>>))

\* a statement, or none
Block(stmt) == IF stmt = NoStmt THEN <<>> ELSE <<stmt>>

\* Parser.parseIfStatement, which the ELSEIF of a multi-line IF enters again
RECURSIVE parseIfStatement(_)
parseIfStatement(p) ==
    LET line == curToken(p).Line
        End(q) == IF curTokenIs(q, "END") THEN nextToken(q) ELSE q
        AfterElse(q) == IF curTokenIs(q, "NEWLINE") THEN nextToken(q) ELSE q
        SingleAlt(c, conseq, a) == Parsed(IfStmt(line, c.expr, conseq, Block(a.stmt)), a.p)
        SingleElse(c, conseq, q) ==
            IF curTokenIs(q, "ELSE") \/ peekTokenIs(q, "ELSE")
            THEN SingleAlt(c, conseq,
                           Call("parseStatement", <<nextToken(IF peekTokenIs(q, "ELSE") THEN nextToken(q)
                                                    ELSE q)>>))
            ELSE Parsed(IfStmt(line, c.expr, conseq, <<>>), q)
        Single(c, r) == SingleElse(c, Block(r.stmt), r.p)
        WithAlt(c, b, a) == Parsed(IfStmt(line, c.expr, b.body, a.body), End(a.p))
        ElseIf(c, b, r) == Parsed(IfStmt(line, c.expr, b.body, Block(r.stmt)), r.p)
        Multi(c, b) ==
            IF curTokenIs(b.p, "ELSEIF") THEN ElseIf(c, b, parseIfStatement(b.p))
            ELSE IF curTokenIs(b.p, "ELSE")
            THEN WithAlt(c, b, Call("parseBlock", <<AfterElse(nextToken(b.p)), {"END"}, <<>>>>))
            ELSE Parsed(IfStmt(line, c.expr, b.body, <<>>), End(b.p))
        Then(c, x) ==
            IF ~x.ok THEN Parsed(NoStmt, x.p)
            ELSE IF ~peekTokenIs(x.p, "NEWLINE") /\ ~peekTokenIs(x.p, "EOF")
            THEN Single(c, Call("parseStatement", <<nextToken(x.p)>>))
            ELSE Multi(c, Call("parseBlock", <<nextToken(nextToken(x.p)), {"ELSE", "ELSEIF", "END"},
                                     <<>>>>))
        With(c) == Then(c, Call("expectPeek", <<c.p, "THEN">>))
    IN With(Call("parseExpression", <<nextToken(p), LOWEST>>))

\* the loop of parseForStatement and parseWhileStatement that moves to the
\* body
RECURSIVE skipToBody(_)
skipToBody(p) ==
    IF curTokenIs(p, "NEWLINE") \/ peekTokenIs(p, "NEWLINE") THEN skipToBody(nextToken(p))
    ELSE p

\* the body loops of parseForStatement, parseWhileStatement and
\* parseDoLoopStatement, which end on the closing keyword (NEXT, WEND, LOOP)
\* or EOF: [body, p]
parseLoopBody(p, closing, body) ==
    LET With(r) ==
            IF peekTokenIs(r.p, closing)
            THEN [body |-> body \o Block(r.stmt), p |-> nextToken(r.p)]
            ELSE Call("parseLoopBody", <<nextToken(r.p), closing, body \o Block(r.stmt)>>)
    IN IF curTokenIs(p, closing) \/ curTokenIs(p, "EOF") THEN [body |-> body, p |-> p]
       ELSE IF curTokenIs(p, "NEWLINE") THEN Call("parseLoopBody", <<nextToken(p), closing, body>>)
       ELSE With(Call("parseStatement", <<p>>))

\* Parser.parseForStatement: the identifier after NEXT is stepped over and
\* nothing of it is kept in the statement
parseForStatement(p) ==
    LET line == curToken(p).Line
        name == curToken(nextToken(p)).Literal
        Done(start, end, step, b) ==
            Parsed(ForStmt(line, name, start.expr, end.expr, step, b.body),
                   IF peekTokenIs(b.p, "IDENT") THEN nextToken(b.p) ELSE b.p)
        Body(start, end, step, q) ==
            Done(start, end, step, Call("parseLoopBody", <<skipToBody(q), "NEXT", <<>>>>))
        Stepped(start, end, st) == Body(start, end, st.expr, st.p)
        WithEnd(start, end) ==
            IF peekTokenIs(end.p, "STEP")
            THEN Stepped(start, end, Call("parseExpression", <<nextToken(nextToken(end.p)), LOWEST>>))
            ELSE Body(start, end, NoExpr, end.p)
        To(start, x) ==
            IF ~x.ok THEN Parsed(NoStmt, x.p)
            ELSE WithEnd(start, Call("parseExpression", <<nextToken(x.p), LOWEST>>))
        WithStart(start) == To(start, Call("expectPeek", <<start.p, "TO">>))
        Eq(x) ==
            IF ~x.ok THEN Parsed(NoStmt, x.p)
            ELSE WithStart(Call("parseExpression", <<nextToken(x.p), LOWEST>>))
    IN Eq(Call("expectPeek", <<nextToken(p), "EQ">>))

\* Parser.parseWhileStatement
parseWhileStatement(p) ==
    LET Body(c, b) == Parsed(WhileStmt(curToken(p).Line, c.expr, b.body), b.p)
        With(c) == Body(c, Call("parseLoopBody", <<skipToBody(c.p), "WEND", <<>>>>))
    IN With(Call("parseExpression", <<nextToken(p), LOWEST>>))

RECURSIVE skipNewlines(_)
skipNewlines(p) == IF curTokenIs(p, "NEWLINE") THEN skipNewlines(nextToken(p)) ELSE p

\* Parser.parseDoLoopStatement
parseDoLoopStatement(p) ==
    LET line == curToken(p).Line
        Post(b, ctype, c) == Parsed(DoLoopStmt(line, c.expr, "POST", ctype, b.body), c.p)
        Loop(cond, pos, ctype, b) ==
            IF peekTokenIs(b.p, "WHILE")
            THEN Post(b, "WHILE", Call("parseExpression", <<nextToken(nextToken(b.p)), LOWEST>>))
            ELSE IF peekTokenIs(b.p, "UNTIL")
            THEN Post(b, "UNTIL", Call("parseExpression", <<nextToken(nextToken(b.p)), LOWEST>>))
            ELSE Parsed(DoLoopStmt(line, cond, pos, ctype, b.body), b.p)
        Body(cond, pos, ctype, q) ==
            Loop(cond, pos, ctype, Call("parseLoopBody", <<skipNewlines(q), "LOOP", <<>>>>))
        Pre(ctype, c) == Body(c.expr, "PRE", ctype, c.p)
    IN IF curTokenIs(nextToken(p), "WHILE")
       THEN Pre("WHILE", Call("parseExpression", <<nextToken(nextToken(p)), LOWEST>>))
       ELSE IF curTokenIs(nextToken(p), "UNTIL")
       THEN Pre("UNTIL", Call("parseExpression", <<nextToken(nextToken(p)), LOWEST>>))
       ELSE Body(NoExpr, "", "", nextToken(p))

\* the comparison tokens that parseCaseValue accepts without IS
ComparisonTokens == {"LT", "GT", "LE", "GE", "EQ", "NE"}

\* Parser.parseCaseValue: [value, p]
parseCaseValue(p) ==
    LET Is(q, e) ==
            [value |-> CaseValue("IS", tokenToOperator(curToken(q).Type), e.expr, NoExpr),
             p |-> e.p]
        Range(v, e) == [value |-> CaseValue("RANGE", "", v.expr, e.expr), p |-> e.p]
        Plain(v) ==
            IF peekTokenIs(v.p, "TO")
            THEN Range(v, Call("parseExpression", <<nextToken(nextToken(v.p)), LOWEST>>))
            ELSE [value |-> CaseValue("SINGLE", "", v.expr, NoExpr), p |-> v.p]
    IN IF curToken(p).Literal = "IS"
       THEN Is(nextToken(p), Call("parseExpression", <<nextToken(nextToken(p)), LOWEST>>))
       ELSE IF curToken(p).Type \in ComparisonTokens
       THEN Is(p, Call("parseExpression", <<nextToken(p), LOWEST>>))
       ELSE Plain(Call("parseExpression", <<p, LOWEST>>))

\* the loop of parseSelectCaseStatement over the values of a clause:
\* [values, p]
RECURSIVE parseCaseValues(_, _)
parseCaseValues(p, values) ==
    LET With(v) ==
            IF peekTokenIs(v.p, "COMMA")
            THEN parseCaseValues(nextToken(nextToken(v.p)), Append(values, v.value))
            ELSE [values |-> Append(values, v.value), p |-> v.p]
    IN With(parseCaseValue(p))

\* the loops that move to the last newline after a head
RECURSIVE skipPeekNewlines(_)
skipPeekNewlines(p) == IF peekTokenIs(p, "NEWLINE") THEN skipPeekNewlines(nextToken(p)) ELSE p

\* the loop of parseSelectCaseStatement over the clauses, entered with
\* curToken on a CASE: [cases, caseElse, p]
RECURSIVE parseCaseClauses(_, _, _)
parseCaseClauses(p, cases, caseElse) ==
    LET Else(b) == parseCaseClauses(b.p, cases, caseElse \o b.body)
        Body(vs, b) ==
            parseCaseClauses(b.p, Append(cases, CaseClause(vs.values, b.body)), caseElse)
        Values(vs) ==
            Body(vs, Call("parseBlock", <<nextToken(skipPeekNewlines(vs.p)), {"CASE", "END"}, <<>>>>))
        AfterElse(q) == IF curTokenIs(q, "NEWLINE") THEN nextToken(q) ELSE q
        Clause(q) ==
            IF curTokenIs(q, "ELSE")
            THEN Else(Call("parseBlock", <<AfterElse(nextToken(q)), {"END", "CASE"}, <<>>>>))
            ELSE Values(parseCaseValues(q, <<>>))
    IN IF ~curTokenIs(p, "CASE")
       THEN [cases |-> cases, caseElse |-> caseElse, p |-> p]
       ELSE Clause(nextToken(p))

\* Parser.parseSelectCaseStatement
parseSelectCaseStatement(p) ==
    LET Done(e, c) ==
            Parsed(SelectCaseStmt(curToken(p).Line, e.expr, c.cases, c.caseElse),
                   IF curTokenIs(c.p, "END") THEN nextToken(c.p) ELSE c.p)
        With(e) == Done(e, parseCaseClauses(nextToken(skipPeekNewlines(e.p)), <<>>, <<>>))
        Case(x) ==
            IF ~x.ok THEN Parsed(NoStmt, x.p)
            ELSE With(Call("parseExpression", <<nextToken(x.p), LOWEST>>))
    IN Case(Call("expectPeek", <<p, "CASE">>))

parseGotoStatement(p) ==
    Parsed(GotoStmt(curToken(p).Line, curToken(nextToken(p)).Literal), nextToken(p))

parseGosubStatement(p) ==
    Parsed(GosubStmt(curToken(p).Line, curToken(nextToken(p)).Literal), nextToken(p))

parseReturnStatement(p) ==
    LET With(e) == Parsed(ReturnStmt(curToken(p).Line, e.expr), e.p)
    IN IF /\ ~peekTokenIs(p, "NEWLINE") /\ ~peekTokenIs(p, "EOF") /\ ~peekTokenIs(p, "COLON")
       THEN With(Call("parseExpression", <<nextToken(p), LOWEST>>))
       ELSE Parsed(ReturnStmt(curToken(p).Line, NoExpr), p)

parseExitStatement(p) ==
    Parsed(ExitStmt(curToken(p).Line, Call("ToUpper", <<curToken(nextToken(p)).Literal>>)), nextToken(p))

\* Parser.parseParameters, curToken on the (: [params, p]
RECURSIVE parseParameterList(_, _)
parseParameterList(p, params) ==
    LET Named(q) ==
            IF peekTokenIs(q, "AS")
            THEN [param |-> [Name |-> curToken(q).Literal,
                             DataType |-> parseDataType(nextToken(nextToken(q)))],
                  p |-> nextToken(nextToken(q))]
            ELSE [param |-> Parameter(curToken(q).Literal), p |-> q]
        With(a) ==
            parseParameterList(nextToken(IF peekTokenIs(a.p, "COMMA") THEN nextToken(a.p)
                                         ELSE a.p), Append(params, a.param))
    IN IF curTokenIs(p, "RPAREN") \/ curTokenIs(p, "EOF") THEN [params |-> params, p |-> p]
       ELSE With(Named(IF curTokenIs(p, "BYVAL") \/ curTokenIs(p, "BYREF") THEN nextToken(p)
                       ELSE p))
parseParameters(p) == parseParameterList(nextToken(p), <<>>)

\* Parser.isEndSub, Parser.isEndFunction
isEndSub(p) == curTokenIs(p, "END") /\ peekTokenIs(p, "SUB")
isEndFunction(p) == curTokenIs(p, "END") /\ peekTokenIs(p, "FUNCTION")

\* the body loops of parseSubStatement and parseFunctionStatement: [body, p]
RECURSIVE parseRoutineBody(_, _, _)
parseRoutineBody(p, closing, body) ==
    LET With(r) == parseRoutineBody(nextToken(r.p), closing, body \o Block(r.stmt))
    IN IF (curTokenIs(p, "END") /\ peekTokenIs(p, closing)) \/ curTokenIs(p, "EOF")
       THEN [body |-> body, p |-> p]
       ELSE With(Call("parseStatement", <<p>>))

\* the head of a SUB or FUNCTION after its name: the parameters, [params, p]
parseHead(p) ==
    IF peekTokenIs(p, "LPAREN") THEN parseParameters(nextToken(p))
    ELSE [params |-> <<>>, p |-> p]

\* Parser.parseSubStatement
parseSubStatement(p) ==
    LET line == curToken(p).Line
        name == curToken(nextToken(p)).Literal
        Static(q) == IF peekTokenIs(q, "STATIC") THEN nextToken(q) ELSE q
        Done(h, b) ==
            Parsed(SubStatement(line, name, h.params, b.body),
                   IF curTokenIs(b.p, "END") THEN nextToken(b.p) ELSE b.p)
        With(h) ==
            Done(h, parseRoutineBody(nextToken(skipPeekNewlines(Static(h.p))), "SUB", <<>>))
    IN With(parseHead(nextToken(p)))

\* Parser.parseFunctionStatement
parseFunctionStatement(p) ==
    LET line == curToken(p).Line
        name == curToken(nextToken(p)).Literal
        Static(q) == IF peekTokenIs(q, "STATIC") THEN nextToken(q) ELSE q
        Done(h, rt, b) ==
            Parsed([FuncStatement(line, name, h.params, b.body) EXCEPT !.ReturnType = rt],
                   IF curTokenIs(b.p, "END") THEN nextToken(b.p) ELSE b.p)
        Typed(h, rt, q) ==
            Done(h, rt, parseRoutineBody(nextToken(skipPeekNewlines(Static(q))), "FUNCTION",
                                         <<>>))
        With(h) ==
            IF peekTokenIs(h.p, "AS")
            THEN Typed(h, parseDataType(nextToken(nextToken(h.p))), nextToken(nextToken(h.p)))
            ELSE Typed(h, SuffixType(name), h.p)
    IN With(parseHead(nextToken(p)))

parseDataStatement(p) ==
    LET With(d) == Parsed(DataStmt(curToken(p).Line, d.list), d.p)
    IN With(parseUntil(nextToken(p), {"NEWLINE", "EOF"}, <<>>))

parseReadStatement(p) ==
    LET With(v) == Parsed(ReadStmt(curToken(p).Line, v.list), v.p)
    IN With(parseWhileComma(nextToken(p), {"NEWLINE", "EOF"}, <<>>))

parseRestoreStatement(p) ==
    IF ~peekTokenIs(p, "NEWLINE") /\ ~peekTokenIs(p, "EOF")
    THEN Parsed(RestoreStmt(curToken(p).Line, curToken(nextToken(p)).Literal), nextToken(p))
    ELSE Parsed(RestoreStmt(curToken(p).Line, ""), p)

parseClsStatement(p) == Parsed(ClsStmt(curToken(p).Line), p)

\* an expression after a comma, when a comma follows: [expr, p]
parseAfterComma(p) ==
    IF peekTokenIs(p, "COMMA") THEN Call("parseExpression", <<nextToken(nextToken(p)), LOWEST>>)
    ELSE Expr(NoExpr, p)

parseLocateStatement(p) ==
    LET Column(row, c) == Parsed(LocateStmt(curToken(p).Line, row.expr, c.expr), c.p)
        Row(row) == Column(row, parseAfterComma(row.p))
    IN IF curTokenIs(nextToken(p), "COMMA") THEN Row(Expr(NoExpr, nextToken(p)))
       ELSE Row(Call("parseExpression", <<nextToken(p), LOWEST>>))

parseColorStatement(p) ==
    LET Back(fg, bg) == Parsed(ColorStmt(curToken(p).Line, fg.expr, bg.expr), bg.p)
        With(fg) == Back(fg, parseAfterComma(fg.p))
    IN With(Call("parseExpression", <<nextToken(p), LOWEST>>))

parseScreenStatement(p) ==
    LET With(m) == Parsed(ScreenStmt(curToken(p).Line, m.expr), m.p)
    IN With(Call("parseExpression", <<nextToken(p), LOWEST>>))

parseEndStatement(p) ==
    IF peekToken(p).Type \in {"IF", "SUB", "FUNCTION", "SELECT"} THEN Parsed(NoStmt, p)
    ELSE Parsed(EndStmt(curToken(p).Line), p)

parseRemStatement(p) == Parsed(RemStmt(curToken(p).Line), p)

parseCallStatement(p) ==
    LET line == curToken(p).Line
        name == curToken(nextToken(p)).Literal
        With(a) == Parsed(CallStmt(line, name, a.list), a.p)
    IN IF peekTokenIs(nextToken(p), "LPAREN")
       THEN With(parseUntil(nextToken(nextToken(nextToken(p))), {"RPAREN", "EOF"}, <<>>))
       ELSE Parsed(CallStmt(line, name, <<>>), nextToken(p))

parseSleepStatement(p) ==
    LET With(s) == Parsed(SleepStmt(curToken(p).Line, s.expr), s.p)
    IN IF ~peekTokenIs(p, "NEWLINE") /\ ~peekTokenIs(p, "EOF")
       THEN With(Call("parseExpression", <<nextToken(p), LOWEST>>))
       ELSE Parsed(SleepStmt(curToken(p).Line, NoExpr), p)

parseBeepStatement(p) == Parsed(BeepStmt(curToken(p).Line), p)

parseSwapStatement(p) ==
    LET Second(a, b) == Parsed(SwapStmt(curToken(p).Line, a.expr, b.expr), b.p)
        Comma(a, x) ==
            IF ~x.ok THEN Parsed(NoStmt, x.p)
            ELSE Second(a, Call("parseExpression", <<nextToken(x.p), LOWEST>>))
        With(a) == Comma(a, Call("expectPeek", <<a.p, "COMMA">>))
    IN With(Call("parseExpression", <<nextToken(p), LOWEST>>))

parseRandomizeStatement(p) ==
    LET With(s) == Parsed(RandomizeStmt(curToken(p).Line, s.expr), s.p)
    IN IF ~peekTokenIs(p, "NEWLINE") /\ ~peekTokenIs(p, "EOF")
       THEN (IF peekToken(p).Literal # "TIMER"
             THEN With(Call("parseExpression", <<nextToken(p), LOWEST>>))
             ELSE Parsed(RandomizeStmt(curToken(p).Line, NoExpr), nextToken(p)))
       ELSE Parsed(RandomizeStmt(curToken(p).Line, NoExpr), p)

parseConstStatement(p) ==
    LET name == curToken(nextToken(p)).Literal
        With(v) == Parsed(ConstStmt(curToken(p).Line, name, v.expr), v.p)
        Eq(x) ==
            IF ~x.ok THEN Parsed(NoStmt, x.p)
            ELSE With(Call("parseExpression", <<nextToken(x.p), LOWEST>>))
    IN Eq(Call("expectPeek", <<nextToken(p), "EQ">>))

\* the loop of parseOpenStatement that moves to AS
RECURSIVE skipToAs(_)
skipToAs(p) ==
    IF curTokenIs(p, "AS") \/ curTokenIs(p, "EOF") \/ curTokenIs(p, "NEWLINE") THEN p
    ELSE skipToAs(nextToken(p))

\* Parser.parseOpenStatement: file name, FOR mode, AS #n.  Nothing assigns
\* stmt.RecLen, and the statement ends on the file number.
parseOpenStatement(p) ==
    LET line == curToken(p).Line
        WithNumber(f, mode, n) == Parsed(OpenStmt(line, f.expr, mode, n.expr), n.p)
        As(f, mode, at) ==
            IF curTokenIs(at, "AS")
            THEN WithNumber(f, mode,
                            Call("parseExpression", <<IF curTokenIs(nextToken(at), "HASH")
                                            THEN nextToken(nextToken(at)) ELSE nextToken(at),
                                            LOWEST>>))
            ELSE Parsed(OpenStmt(line, f.expr, mode, NoExpr), at)
        With(f) ==
            IF peekTokenIs(f.p, "FOR")
            THEN As(f, Call("ToUpper", <<curToken(nextToken(nextToken(f.p))).Literal>>),
                    skipToAs(nextToken(nextToken(f.p))))
            ELSE As(f, "", skipToAs(f.p))
    IN With(Call("parseExpression", <<nextToken(p), LOWEST>>))

\* the loop of parseCloseStatement: [list, p]
RECURSIVE parseFileNums(_, _)
parseFileNums(p, list) ==
    LET With(n) ==
            parseFileNums(IF peekTokenIs(n.p, "COMMA") THEN nextToken(n.p) ELSE n.p,
                          Append(list, n.expr))
    IN IF peekTokenIs(p, "HASH")
       THEN With(Call("parseExpression", <<nextToken(nextToken(p)), LOWEST>>))
       ELSE [list |-> list, p |-> p]

parseCloseStatement(p) ==
    LET With(n) == Parsed(CloseStmt(curToken(p).Line, n.list), n.p)
    IN With(parseFileNums(p, <<>>))

\* the steps of a statement parser, one after another: each is "peek" with
\* the token type expectPeek is called with, "next" for nextToken, or "expr"
\* for parseExpression(LOWEST), whose result is appended to exprs.  A failed
\* expectPeek ends the sequence.  [ok, exprs, p]
parseSequence(p, steps, exprs) ==
    LET Peeked(x) ==
            IF x.ok THEN Call("parseSequence", <<x.p, Tail(steps), exprs>>)
            ELSE [ok |-> FALSE, exprs |-> exprs, p |-> x.p]
        With(e) == Call("parseSequence", <<e.p, Tail(steps), Append(exprs, e.expr)>>)
    IN IF steps = <<>> THEN [ok |-> TRUE, exprs |-> exprs, p |-> p]
       ELSE IF Head(steps) = "expr" THEN With(Call("parseExpression", <<p, LOWEST>>))
       ELSE IF Head(steps) = "next" THEN Call("parseSequence", <<nextToken(p), Tail(steps), exprs>>)
       ELSE Peeked(Call("expectPeek", <<p, Head(steps)>>))

\* the part of parseLineStatement for LINE INPUT, curToken on INPUT
parseLineInput(p, line) ==
    LET FromFile(s) ==
            IF ~s.ok THEN Parsed(NoStmt, s.p)
            ELSE Parsed(LineInputFileStmt(line, s.exprs[1], s.exprs[2]), s.p)
        Var(pr, v) == Parsed(LineInputStmt(line, pr.prompt, v.expr), v.p)
        Prompted(pr) == Var(pr, Call("parseExpression", <<pr.p, LOWEST>>))
    IN IF peekTokenIs(p, "HASH")
       THEN FromFile(Call("parseSequence", <<nextToken(nextToken(p)),
                                   <<"expr", "COMMA", "next", "expr">>, <<>>>>))
       ELSE Prompted(parsePrompt(nextToken(p)))

\* the part of parseLineStatement for LINE (x1, y1)-(x2, y2), color, BF,
\* curToken on the (
parseLineGraphics(p, line) ==
    LET Box(s, color, q) ==
            IF peekTokenIs(q, "COMMA")
            THEN Parsed(LineGraphicsStmt(line, s.exprs, color,
                                         IF curTokenIs(nextToken(nextToken(q)), "IDENT")
                                         THEN Call("ToUpper", <<curToken(nextToken(nextToken(q))).Literal>>)
                                         ELSE ""),
                        nextToken(nextToken(q)))
            ELSE Parsed(LineGraphicsStmt(line, s.exprs, color, ""), q)
        Colored(s, c) == Box(s, c.expr, c.p)
        Color(s, q) ==
            IF curToken(q).Type \notin {"COMMA", "NEWLINE", "EOF"}
            THEN Colored(s, Call("parseExpression", <<q, LOWEST>>))
            ELSE Box(s, NoExpr, q)
        With(s) ==
            IF ~s.ok THEN Parsed(NoStmt, s.p)
            ELSE IF peekTokenIs(s.p, "COMMA") THEN Color(s, nextToken(nextToken(s.p)))
            ELSE Box(s, NoExpr, s.p)
    IN With(Call("parseSequence", <<p, <<"next", "expr", "COMMA", "next", "expr", "RPAREN", "MINUS",
                               "LPAREN", "next", "expr", "COMMA", "next", "expr", "RPAREN">>,
                          <<>>>>))

\* Parser.parseLineStatement
parseLineStatement(p) ==
    IF curTokenIs(nextToken(p), "INPUT") THEN parseLineInput(nextToken(p), curToken(p).Line)
    ELSE IF curTokenIs(nextToken(p), "LPAREN")
    THEN parseLineGraphics(nextToken(p), curToken(p).Line)
    ELSE Parsed(NoStmt, nextToken(p))

\* the loops of parseOnStatement over the targets: [targets, p]
RECURSIVE parseTargets(_, _)
parseTargets(p, targets) ==
    IF curTokenIs(p, "NEWLINE") \/ curTokenIs(p, "EOF") THEN [targets |-> targets, p |-> p]
    ELSE parseTargets(nextToken(IF peekTokenIs(p, "COMMA") THEN nextToken(p) ELSE p),
                      Append(targets, curToken(p).Literal))

\* Parser.parseOnStatement
parseOnStatement(p) ==
    LET line == curToken(p).Line
        Goto(e, t) == Parsed(OnGotoStmt(line, e.expr, t.targets), t.p)
        Gosub(e, t) == Parsed(OnGosubStmt(line, e.expr, t.targets), t.p)
        With(e) ==
            IF curTokenIs(nextToken(e.p), "GOTO")
            THEN Goto(e, parseTargets(nextToken(nextToken(e.p)), <<>>))
            ELSE IF curTokenIs(nextToken(e.p), "GOSUB")
            THEN Gosub(e, parseTargets(nextToken(nextToken(e.p)), <<>>))
            ELSE Parsed(NoStmt, nextToken(e.p))
    IN With(Call("parseExpression", <<nextToken(p), LOWEST>>))

\* Parser.parseGetStatement and Parser.parsePutStatement, which differ in
\* the statement they build: GET/PUT #n, position, variable
parseGetPut(p, type) ==
    LET line == curToken(p).Line
        Stmt(n, pos, v) ==
            IF type = "GET" THEN GetStmt(line, n, pos, v) ELSE PutStmt(line, n, pos, v)
        Var(n, pos, v) == Parsed(Stmt(n, pos, v.expr), v.p)
        Variable(n, pos, q) ==
            IF curTokenIs(q, "COMMA") \/ peekTokenIs(q, "COMMA")
            THEN Var(n, pos, Call("parseExpression", <<nextToken(IF peekTokenIs(q, "COMMA")
                                                       THEN nextToken(q) ELSE q), LOWEST>>))
            ELSE Parsed(Stmt(n, pos, NoExpr), q)
        Sought(n, e) == Variable(n, e.expr, e.p)
        With(s) ==
            IF ~s.ok THEN Parsed(NoStmt, s.p)
            ELSE IF ~curTokenIs(s.p, "COMMA")
            THEN Sought(s.exprs[1], Call("parseExpression", <<s.p, LOWEST>>))
            ELSE Variable(s.exprs[1], NoExpr, s.p)
    IN With(Call("parseSequence", <<p, <<"HASH", "next", "expr", "COMMA", "next">>, <<>>>>))

\* Parser.parseSeekStatement: SEEK #n, position
parseSeekStatement(p) ==
    LET With(s) ==
            IF ~s.ok THEN Parsed(NoStmt, s.p)
            ELSE Parsed(SeekStmt(curToken(p).Line, s.exprs[1], s.exprs[2]), s.p)
    IN With(Call("parseSequence", <<p, <<"HASH", "next", "expr", "COMMA", "next", "expr">>, <<>>>>))

\* Parser.parsePsetStatement: PSET (x, y), color
parsePsetStatement(p) ==
    LET Color(s, c) ==
            Parsed(PsetStmt(curToken(p).Line, s.exprs[1], s.exprs[2], c.expr), c.p)
        With(s) ==
            IF ~s.ok THEN Parsed(NoStmt, s.p) ELSE Color(s, parseAfterComma(s.p))
    IN With(Call("parseSequence", <<p, <<"LPAREN", "next", "expr", "COMMA", "next", "expr", "RPAREN">>,
                          <<>>>>))

\* Parser.parseCircleStatement: CIRCLE (x, y), radius, color
parseCircleStatement(p) ==
    LET Color(s, c) ==
            Parsed(CircleStmt(curToken(p).Line, s.exprs[1], s.exprs[2], s.exprs[3], c.expr),
                   c.p)
        With(s) ==
            IF ~s.ok THEN Parsed(NoStmt, s.p) ELSE Color(s, parseAfterComma(s.p))
    IN With(Call("parseSequence", <<p, <<"LPAREN", "next", "expr", "COMMA", "next", "expr", "RPAREN",
                               "COMMA", "next", "expr">>, <<>>>>))

\* Parser.parseIdentifierStatement: an assignment, a label or a SUB call
parseIdentifierStatement(p) ==
    LET line == curToken(p).Line
        name == curToken(p).Literal
        Assigned(target, v) == Parsed(LetTarget(line, target, v.expr), v.p)
        Args(a) == Parsed(SubCallStmt(line, name, a.list), a.p)
        Element(ident) ==
            IF peekTokenIs(ident.p, "EQ")
            THEN Assigned(ident.expr, Call("parseExpression", <<nextToken(nextToken(ident.p)), LOWEST>>))
            ELSE Parsed(SubCallStmt(line, ident.expr.Function, ident.expr.Arguments), ident.p)
    IN IF peekTokenIs(p, "LPAREN") THEN Element(parseIdentifier(p))
       ELSE IF peekTokenIs(p, "EQ")
       THEN Assigned(PlainIdentifier(name), Call("parseExpression", <<nextToken(nextToken(p)), LOWEST>>))
       ELSE IF peekTokenIs(p, "COLON") THEN Parsed(LabelStmt(line, name), nextToken(p))
       ELSE Args(parseWhileComma(nextToken(p), {"NEWLINE", "EOF", "COLON"}, <<>>))

\* Parser.parseStatement: [stmt (NoStmt for nil), p]
parseStatement(p0) ==
    LET \* a line number beyond the integers of the model is not followed
        Numbered(p, q) ==
            IF ParseIntErr(Call("BytesOf", <<curToken(p).Literal>>)).beyond THEN [q EXCEPT !.beyond = TRUE]
            ELSE q
        Marker(p, r) ==
            Parsed(LineNumberStmt(curToken(p).Line, Call("Atoi", <<curToken(p).Literal>>)), Numbered(p, r.p))
        At(p) ==
            CASE curTokenIs(p, "EOF") -> Parsed(NoStmt, p)
              [] curTokenIs(p, "LINE_NUMBER") ->
                    IF peekTokenIs(p, "NEWLINE") \/ peekTokenIs(p, "EOF")
                    THEN Parsed(LineNumberStmt(curToken(p).Line, Call("Atoi", <<curToken(p).Literal>>)),
                                Numbered(p, p))
                    ELSE \* the statement after the number is parsed, and only the
                         \* marker is returned
                         Marker(p, Call("parseStatement", <<nextToken(p)>>))
              [] curTokenIs(p, "LET") -> parseLetStatement(p)
              [] curTokenIs(p, "PRINT") -> parsePrintStatement(p)
              [] curTokenIs(p, "INPUT") -> parseInputStatement(p)
              [] curTokenIs(p, "DIM") -> parseDimStatement(p)
              [] curTokenIs(p, "IF") -> parseIfStatement(p)
              [] curTokenIs(p, "FOR") -> parseForStatement(p)
              [] curTokenIs(p, "WHILE") -> parseWhileStatement(p)
              [] curTokenIs(p, "DO") -> parseDoLoopStatement(p)
              [] curTokenIs(p, "SELECT") -> parseSelectCaseStatement(p)
              [] curTokenIs(p, "GOTO") -> parseGotoStatement(p)
              [] curTokenIs(p, "GOSUB") -> parseGosubStatement(p)
              [] curTokenIs(p, "RETURN") -> parseReturnStatement(p)
              [] curTokenIs(p, "EXIT") -> parseExitStatement(p)
              [] curTokenIs(p, "SUB") -> parseSubStatement(p)
              [] curTokenIs(p, "FUNCTION") -> parseFunctionStatement(p)
              [] curTokenIs(p, "DATA") -> parseDataStatement(p)
              [] curTokenIs(p, "READ") -> parseReadStatement(p)
              [] curTokenIs(p, "RESTORE") -> parseRestoreStatement(p)
              [] curTokenIs(p, "CLS") -> parseClsStatement(p)
              [] curTokenIs(p, "LOCATE") -> parseLocateStatement(p)
              [] curTokenIs(p, "COLOR") -> parseColorStatement(p)
              [] curTokenIs(p, "SCREEN") -> parseScreenStatement(p)
              [] curTokenIs(p, "END") -> parseEndStatement(p)
              [] curTokenIs(p, "REM") -> parseRemStatement(p)
              [] curTokenIs(p, "CALL") -> parseCallStatement(p)
              [] curTokenIs(p, "SLEEP") -> parseSleepStatement(p)
              [] curTokenIs(p, "BEEP") -> parseBeepStatement(p)
              [] curTokenIs(p, "SWAP") -> parseSwapStatement(p)
              [] curTokenIs(p, "RANDOMIZE") -> parseRandomizeStatement(p)
              [] curTokenIs(p, "CONST") -> parseConstStatement(p)
              [] curTokenIs(p, "OPEN") -> parseOpenStatement(p)
              [] curTokenIs(p, "CLOSE") -> parseCloseStatement(p)
              [] curTokenIs(p, "LINE") -> parseLineStatement(p)
              [] curTokenIs(p, "ON") -> parseOnStatement(p)
              [] curTokenIs(p, "REDIM") -> parseRedimStatement(p)
              [] curTokenIs(p, "GET") -> parseGetPut(p, "GET")
              [] curTokenIs(p, "PUT") -> parseGetPut(p, "PUT")
              [] curTokenIs(p, "SEEK") -> parseSeekStatement(p)
              [] curTokenIs(p, "PSET") -> parsePsetStatement(p)
              [] curTokenIs(p, "CIRCLE") -> parseCircleStatement(p)
              [] curTokenIs(p, "IDENT") -> parseIdentifierStatement(p)
              [] OTHER -> Parsed(NoStmt, p)
    IN At(skipNewlines(p0))

\* the functions that Call names
Call(f, a) ==
    CASE f = "evaluate" -> evaluate(a[1], a[2], a[3])
      [] f = "evaluateSubscripts" -> evaluateSubscripts(a[1], a[2], a[3], a[4])
      [] f = "evaluateArgs" -> evaluateArgs(a[1], a[2], a[3], a[4])
      [] f = "callFunction" -> callFunction(a[1], a[2], a[3], a[4])
      [] f = "RunBody" -> RunBody(a[1], a[2], a[3], a[4])
      [] f = "evaluateFileFunction" -> evaluateFileFunction(a[1], a[2], a[3], a[4])
      [] f = "parseStatement" -> parseStatement(a[1])
      [] f = "parseExpression" -> parseExpression(a[1], a[2])
      [] f = "parseBlock" -> parseBlock(a[1], a[2], a[3])
      [] f = "parseDimVariables" -> parseDimVariables(a[1], a[2])
      [] f = "MachineStep" -> MachineStep(a[1], a[2])
      [] f = "Dispatch" -> Dispatch(a[1], a[2], a[3])
      [] f = "executeStatement" -> executeStatement(a[1], a[2], a[3])
      [] f = "BodyEnd" -> BodyEnd(a[1], a[2])
      [] f = "Propagate" -> Propagate(a[1])
      [] f = "builtinsCall" -> builtinsCall(a[1], a[2], a[3])
      [] f = "TrimSpace" -> TrimSpace(a[1])
      [] f = "ToFloat" -> ToFloat(a[1])
      [] f = "ToInt" -> ToInt(a[1])
      [] f = "ToUpper" -> ToUpper(a[1])
      [] f = "ValueString" -> ValueString(a[1])
      [] f = "BuiltinString" -> BuiltinString(a[1])
      [] f = "Stringable" -> Stringable(a[1])
      [] f = "Decimal" -> Decimal(a[1])
      [] f = "FormatG" -> FormatG(a[1], a[2])
      [] f = "InputValue" -> InputValue(a[1], a[2])
      [] f = "InputTarget" -> InputTarget(a[1], a[2], a[3], a[4])
      [] f = "CoerceValue" -> CoerceValue(a[1], a[2])
      [] f = "Compare" -> Compare(a[1], a[2])
      [] f = "ForTest" -> ForTest(a[1], a[2])
      [] f = "ParseFloatErr" -> ParseFloatErr(a[1])
      [] f = "ParseFloat" -> ParseFloat(a[1])
      [] f = "ParseInt" -> ParseInt(a[1])
      [] f = "Sscanf" -> Sscanf(a[1])
      [] f = "formatValue" -> formatValue(a[1])
      [] f = "PrintItems" -> PrintItems(a[1], a[2], a[3], a[4], a[5], a[6])
      [] f = "Positioned" -> Positioned(a[1], a[2], a[3])
      [] f = "AssignTarget" -> AssignTarget(a[1], a[2], a[3], a[4])
      [] f = "SetElement" -> SetElement(a[1], a[2], a[3], a[4], a[5])
      [] f = "ResolveTarget" -> ResolveTarget(a[1], a[2])
      [] f = "EnvGet" -> EnvGet(a[1], a[2], a[3])
      [] f = "GetArray" -> GetArray(a[1], a[2], a[3])
      [] f = "Atoi" -> Atoi(a[1])
      [] f = "ProgramOf" -> ProgramOf(a[1], a[2], a[3])
      [] f = "AddStatement" -> AddStatement(a[1], a[2])
      [] f = "registerAll" -> registerAll(a[1], a[2])
      [] f = "evaluateBinaryExpr" -> evaluateBinaryExpr(a[1], a[2], a[3])
      [] f = "BinaryOp" -> BinaryOp(a[1], a[2], a[3])
      [] f = "executePrintUsingStatement" -> executePrintUsingStatement(a[1], a[2], a[3])
      [] f = "formatNumeric" -> formatNumeric(a[1], a[2])
      [] f = "formatWithTemplate" -> formatWithTemplate(a[1], a[2])
      [] f = "Less" -> Less(a[1], a[2])
      [] f = "ParseDecimal" -> ParseDecimal(a[1])
      [] f = "ParsePlain" -> ParsePlain(a[1])
      [] f = "IntText" -> IntText(a[1])
      [] f = "BytesOf" -> BytesOf(a[1])
      [] f = "parsePrefix" -> parsePrefix(a[1])
      [] f = "ElementOf" -> ElementOf(a[1], a[2], a[3])
      [] f = "IndexError" -> IndexError(a[1], a[2])
      [] f = "Product" -> Product(a[1], a[2])
      [] f = "Sum" -> Sum(a[1], a[2])
      [] f = "FormatInt" -> FormatInt(a[1])
      [] f = "FileError" -> FileError(a[1], a[2])
      [] f = "TextOf" -> TextOf(a[1])
      [] f = "expectPeek" -> expectPeek(a[1], a[2])
      [] f = "parseSequence" -> parseSequence(a[1], a[2], a[3])
      [] f = "parseLoopBody" -> parseLoopBody(a[1], a[2], a[3])
      [] f = "Exact" -> Exact(a[1], a[2])
      [] f = "parseLineNumber" -> parseLineNumber(a[1])

\* --------------------------------------------------------------------------
\* The programs the interpreter is run on.  Every one is a statement array
\* the parser produces for some source text.
\* --------------------------------------------------------------------------
\* number the statements of a list: statement k is on source line base + k
RECURSIVE Numbered(_, _)
Numbered(stmts, base) ==
    LET One(s, b) ==
            IF "Body" \in DOMAIN s THEN [s EXCEPT !.Body = Numbered(@, b * 10)]
            ELSE IF "Consequence" \in DOMAIN s
            THEN [s EXCEPT !.Consequence = Numbered(@, b * 10),
                           !.Alternative = Numbered(@, b * 10 + 5)]
            ELSE IF "Cases" \in DOMAIN s
            THEN [s EXCEPT !.Cases = [c \in DOMAIN @ |->
                        [@[c] EXCEPT !.Body = Numbered(@, b * 10)]]]
            ELSE s
    IN [k \in 1..Len(stmts) |-> One([stmts[k] EXCEPT !.Line = base + k], base + k)]

Incr(name) == LetStmt(0, name, BinaryExpr("+", Identifier(name), IntegerLiteral(1)))
Assign(name, v) == LetStmt(0, name, IntegerLiteral(v))
Cmp(name, op, v) == BinaryExpr(op, Identifier(name), IntegerLiteral(v))

\* top-level GOSUB / RETURN programs: two subroutines, one behind a label and
\* one behind a line number
GosubSlot ==
    {GosubStmt(0, "a"), GosubStmt(0, "20"), GosubStmt(0, "b"), ReturnStmt(0, NoExpr),
     Incr("x"), GotoStmt(0, "a")}
GosubPrograms ==
    {<<s1, s2, EndStmt(0), LabelStmt(0, "A"), s3, s4, LineNumberStmt(0, 20), s5,
       ReturnStmt(0, NoExpr)>> : s1 \in GosubSlot \ {ReturnStmt(0, NoExpr)},
                                  s2 \in GosubSlot, s3 \in GosubSlot,
                                  s4 \in GosubSlot, s5 \in {Incr("x"), GosubStmt(0, "a")}}

\* a block with a two-statement body between top-level assignments
BlockSlot ==
    {Incr("x"), GotoStmt(0, "a"), ExitStmt(0, "FOR"), ExitStmt(0, "DO"),
     ReturnStmt(0, NoExpr), GosubStmt(0, "a")}
LoopSlot == BlockSlot \cup {EndStmt(0), ExitStmt(0, "WHILE")}
Blocks(b) ==
    {IfStmt(0, Cmp("x", "=", 0), b, <<>>),
     IfStmt(0, Cmp("x", "=", 1), <<Incr("y")>>, b),
     SelectCaseStmt(0, Identifier("x"),
        <<CaseClause(<<CaseValue("SINGLE", "", IntegerLiteral(1), NoExpr)>>, <<Incr("y")>>),
          CaseClause(<<CaseValue("RANGE", "", IntegerLiteral(0), IntegerLiteral(3))>>, b)>>,
        <<>>)}
Loops(b) ==
    {ForStmt(0, "x", IntegerLiteral(1), IntegerLiteral(2), NoExpr, b),
     WhileStmt(0, Cmp("x", "<", 2), b),
     DoLoopStmt(0, NoExpr, "", "", b),
     DoLoopStmt(0, Cmp("x", ">=", 2), "POST", "UNTIL", b),
     DoLoopStmt(0, Cmp("x", "<", 2), "PRE", "WHILE", b)}
BlockPrograms ==
    {<<Assign("x", 0), blk, Assign("y", 5), LabelStmt(0, "a"), Assign("z", 1)>> :
        blk \in UNION ({Blocks(<<b1, b2>>) : b1 \in BlockSlot, b2 \in BlockSlot}
                       \cup {Loops(<<b1, b2>>) : b1 \in LoopSlot, b2 \in LoopSlot})}
      \cup {<<Assign("x", 0), IfStmt(0, Cmp("x", "=", 0), <<EndStmt(0)>>, <<>>),
              Assign("y", 5)>>}

\* routine definitions reached by the main loop
DefSlot ==
    {Assign("y", 1), EndStmt(0), SubCallStmt(0, "s", <<>>), RemStmt(0),
     SubStatement(0, "t", <<>>, <<>>), FuncStatement(0, "g", <<>>, <<>>)}
DefPrograms ==
    {<<Assign("x", 1), def, t1, t2, t3>> :
        def \in {SubStatement(0, "s", <<>>, <<Assign("x", 2)>>),
                 FuncStatement(0, "f", <<Parameter("n")>>, <<Assign("f", 2)>>)},
        t1 \in DefSlot, t2 \in DefSlot, t3 \in DefSlot}

\* routine calls: a SUB and a FUNCTION defined after END, called from the
\* module level, from a GOSUB subroutine and from each other
SubSlot ==
    {Assign("x", 5), ReturnStmt(0, NoExpr), ExitStmt(0, "SUB"),
     LetStmt(0, "y", CallExpr("f", <<IntegerLiteral(3)>>)), EndStmt(0)}
FuncSlot ==
    {LetStmt(0, "f", BinaryExpr("+", Identifier("n"), IntegerLiteral(1))),
     Assign("f", 7), ReturnStmt(0, IntegerLiteral(5)), ReturnStmt(0, NoExpr),
     ExitStmt(0, "FUNCTION"), SubCallStmt(0, "s", <<>>)}
CallSite ==
    {SubCallStmt(0, "s", <<>>), LetStmt(0, "y", CallExpr("f", <<IntegerLiteral(1)>>)),
     GosubStmt(0, "a")}
CallPrograms ==
    {<<Assign("x", 1), c, Assign("z", 2), EndStmt(0),
       SubStatement(0, "s", <<>>, <<r1, r2>>),
       FuncStatement(0, "f", <<Parameter("n")>>, <<q1, q2>>),
       LabelStmt(0, "a"), d, ReturnStmt(0, NoExpr)>> :
        c \in CallSite, d \in CallSite \ {GosubStmt(0, "a")},
        r1 \in SubSlot, r2 \in SubSlot, q1 \in FuncSlot, q2 \in FuncSlot}

Programs ==
    {Call("ProgramOf", <<Numbered(p, 0), 1, NewProgram>>) :
        p \in GosubPrograms \cup BlockPrograms \cup DefPrograms \cup CallPrograms}

\* --------------------------------------------------------------------------
\* Programs over variables, arrays, constants and DATA
\* --------------------------------------------------------------------------
Lit(v) == IntegerLiteral(v)
Lits(vs) == [k \in 1..Len(vs) |-> IntegerLiteral(vs[k])]
Copy(to, from) == LetStmt(0, to, Identifier(from))
Fetch(to, name, subs) == LetStmt(0, to, CallExpr(name, Lits(subs)))
Dim(name, dims) == DimStmt(0, <<DimVariable(name, Lits(dims))>>, FALSE)
Redim(name, dims, preserve) == RedimStmt(0, preserve, <<DimVariable(name, Lits(dims))>>)

\* assignments to a scalar whose name has a suffix: LET, READ, SWAP, FOR
KindSlot ==
    {Assign("N%", 40000), Copy("N%", "X"), ReadStmt(0, <<Identifier("N%")>>),
     SwapStmt(0, Identifier("N%"), Identifier("X")), Assign("X", 3),
     ForStmt(0, "N%", Lit(1), Lit(2), NoExpr, <<RemStmt(0)>>)}
KindPrograms ==
    {<<DataStmt(0, <<Lit(7)>>), s1, s2, s3>> :
        s1 \in KindSlot, s2 \in KindSlot, s3 \in KindSlot}

\* an array of INTEGER elements: element stores, READ into an element, REDIM
ElementSlot ==
    {LetElement(0, "A%", <<Lit(1)>>, Lit(5)), LetElement(0, "A%", <<Lit(3)>>, Lit(5)),
     ReadStmt(0, <<CallExpr("A%", <<Lit(0)>>)>>), Redim("A%", <<1>>, FALSE),
     Redim("A%", <<3>>, TRUE), Fetch("X", "A%", <<1>>)}
ElementPrograms ==
    {<<DataStmt(0, <<Lit(7)>>), Dim("A%", <<2>>), s1, s2, s3>> :
        s1 \in ElementSlot, s2 \in ElementSlot, s3 \in ElementSlot}

\* arrays of one, two and three dimensions and stores at literal subscripts
IndexDims == {<<2>>, <<1, 2>>, <<1, 1, 2>>}
IndexSubs == {<<0>>, <<2>>, <<3>>, <<1, 2>>, <<0, 1>>, <<2, 0>>, <<1, 0, 2>>, <<0, 1, 1>>}
IndexPrograms ==
    {<<Dim("B", d), LetElement(0, "B", Lits(t1), Lit(5)),
       LetElement(0, "B", Lits(t2), Lit(6)), Fetch("X", "B", t1)>> :
        d \in IndexDims, t1 \in IndexSubs, t2 \in IndexSubs}

\* REDIM of an array that holds a value, read back afterwards
RedimDims == {<<2>>, <<1>>, <<1, 1>>, <<2, 1>>}
RedimPrograms ==
    {<<Dim("B", d), LetElement(0, "B", Lits(t), Lit(5)), Redim("B", d2, p),
       Fetch("X", "B", t)>> :
        d \in RedimDims, d2 \in RedimDims, t \in {<<1>>, <<1, 1>>, <<0, 1>>},
        p \in BOOLEAN}

\* a module-level constant, assignments that name it in the module and in a
\* SUB and a FUNCTION, and reads of it in each scope
ConstSlot ==
    {Assign("C", 5), ReadStmt(0, <<Identifier("C")>>),
     SwapStmt(0, Identifier("C"), Identifier("X")), RemStmt(0)}
ConstPrograms ==
    {<<DataStmt(0, <<Lit(7)>>), ConstStmt(0, "C", Lit(1)), m, Copy("Y", "C"),
       call, EndStmt(0),
       SubStatement(0, "S", <<>>, <<r, Copy("Z", "C")>>),
       FuncStatement(0, "F", <<>>, <<r, Copy("F", "C")>>)>> :
        m \in ConstSlot \cup {ConstStmt(0, "C", Lit(2)),
                              ForStmt(0, "C", Lit(5), Lit(6), NoExpr, <<RemStmt(0)>>)},
        call \in {SubCallStmt(0, "S", <<>>), LetStmt(0, "Y", CallExpr("F", <<>>))},
        r \in ConstSlot}

\* DIM SHARED X (shared TRUE) or DIM X at module level, routines that assign
\* X and routines that read it
ScopeCall ==
    {SubCallStmt(0, "S", <<>>), SubCallStmt(0, "T", <<>>), SubCallStmt(0, "P", <<Lit(9)>>),
     LetStmt(0, "Z", CallExpr("F", <<Lit(8)>>)), Copy("Y", "X")}
ScopePrograms ==
    {<<DimStmt(0, <<DimVariable("X", <<>>)>>, shared), Assign("X", 1), c1, c2,
       Copy("Y", "X"), EndStmt(0),
       SubStatement(0, "S", <<>>, <<Assign("X", 5), r>>),
       SubStatement(0, "T", <<>>, <<Copy("G", "X")>>),
       SubStatement(0, "P", <<Parameter("X")>>, <<Copy("G", "X")>>),
       FuncStatement(0, "F", <<Parameter("X")>>, <<Assign("X", 6), Assign("F", 2)>>)>> :
        shared \in BOOLEAN, c1 \in ScopeCall, c2 \in ScopeCall,
        r \in {RemStmt(0), ExitStmt(0, "SUB"), ReturnStmt(0, NoExpr)}}

\* a scalar and an array of the same name
NameSlot ==
    {Assign("X", 1), LetElement(0, "X", <<Lit(1)>>, Lit(5)), Copy("Y", "X"),
     Fetch("Y", "X", <<1>>), Dim("X", <<2>>)}
NamePrograms ==
    {<<s1, s2, s3, s4>> : s1 \in NameSlot, s2 \in NameSlot, s3 \in NameSlot,
                          s4 \in NameSlot}

\* READ and RESTORE over three DATA items
ReadSlot ==
    {ReadStmt(0, <<Identifier("X")>>), ReadStmt(0, <<Identifier("X"), Identifier("Y")>>),
     ReadStmt(0, <<Identifier("Y"), CallExpr("A", <<Lit(1)>>), Identifier("X")>>),
     RestoreStmt(0, ""), RestoreStmt(0, "10"), RestoreStmt(0, "b")}
ReadPrograms ==
    {<<Dim("A", <<1>>), DataStmt(0, <<Lit(1)>>), LabelStmt(0, "b"), DataStmt(0, <<Lit(2)>>),
       s1, s2, LineNumberStmt(0, 10), DataStmt(0, <<Lit(3)>>), s3>> :
        s1 \in ReadSlot, s2 \in ReadSlot, s3 \in ReadSlot}

\* file names: "f" and "g"
F == <<102>>
G == <<103>>
Open(name, mode, n) == OpenStmt(0, StringLiteral(name), mode, Lit(n))
Close(ns) == CloseStmt(0, Lits(ns))
PrintTo(n, bytes) == PrintFileStmt(0, Lit(n), <<PrintItem(StringLiteral(bytes), "")>>, FALSE)

\* OPEN and CLOSE on file numbers in use and not in use
OpenSlot ==
    {Close(<<1>>), Close(<<>>), Close(<<2, 1>>), Open(F, "OUTPUT", 1), Open(G, "OUTPUT", 1),
     Open(F, "INPUT", 1), Open(G, "INPUT", 1), Open(G, "BINARY", 2), Open(F, "APPEND", 2),
     EndStmt(0)}
OpenPrograms ==
    {<<Open(F, "OUTPUT", 1), PrintTo(1, <<97>>), s1, s2, s3>> :
        s1 \in OpenSlot, s2 \in OpenSlot, s3 \in OpenSlot}

\* the functions of evaluateCallExpr that take a file number
FileFunctions == {"EOF", "LOF", "LOC"}

\* every file operation on a handle of each mode and on a number not in use
FileOps(n) ==
    {PrintTo(n, <<98>>), LineInputFileStmt(0, Lit(n), Identifier("T$")),
     GetStmt(0, Lit(n), NoExpr, Identifier("N%")), PutStmt(0, Lit(n), Lit(1), Lit(7)),
     SeekStmt(0, Lit(n), Lit(2)), Close(<<n>>), Close(<<1, n>>)}
      \cup {LetStmt(0, "X", CallExpr(fn, <<Lit(n)>>)) : fn \in FileFunctions}
FilePrograms ==
    {<<Open(F, "OUTPUT", 1), PrintTo(1, <<97>>), Close(<<1>>), Open(F, mode, 1), op,
       Assign("Y", 1)>> :
        mode \in {"INPUT", "OUTPUT", "APPEND", "BINARY", "RANDOM"},
        op \in FileOps(1) \cup FileOps(2)}

\* a file statement on #1 with an operand that calls the FUNCTION R, which
\* closes #1, or not, and opens it again, or not: the statement fetched the
\* handle of #1, a file that holds a,b with no newline, before it evaluated
\* the operand
HeldOps ==
    {PrintFileStmt(0, Lit(1), <<PrintItem(CallExpr("R", <<>>), "")>>, FALSE),
     InputFileStmt(0, Lit(1), <<CallExpr("A", <<CallExpr("R", <<>>)>>), Identifier("B$")>>),
     GetStmt(0, Lit(1), CallExpr("R", <<>>), Identifier("N%")),
     PutStmt(0, Lit(1), NoExpr, CallExpr("R", <<>>)),
     PutStmt(0, Lit(1), CallExpr("R", <<>>), Lit(7)),
     SeekStmt(0, Lit(1), CallExpr("R", <<>>))}
HeldPrograms ==
    {<<Open(F, "OUTPUT", 1),
       PrintFileStmt(0, Lit(1), <<PrintItem(StringLiteral(<<97, 44, 98>>), "")>>, TRUE),
       Close(<<1>>), Open(F, "BINARY", 1),
       DimStmt(0, <<DimVariable("A", <<Lit(2)>>)>>, FALSE), op, Assign("Y", 1), EndStmt(0),
       FuncStatement(0, "R", <<>>, <<c, o, Assign("R", 1)>>)>> :
        op \in HeldOps, c \in {Close(<<1>>), RemStmt(0)},
        o \in {RemStmt(0), Open(G, "OUTPUT", 1), Open(F, "INPUT", 1)}}

\* CHR$ of every code from -1 to 256, then LEN and ASC of the string
ChrCodes == (0 - 1)..256
ChrPrograms ==
    {<<LetStmt(0, "N", IF n < 0 THEN BinaryExpr("-", Lit(0), Lit(0 - n)) ELSE Lit(n)),
       LetStmt(0, "S$", CallExpr("CHR$", <<Identifier("N")>>)),
       LetStmt(0, "L", CallExpr("LEN", <<Identifier("S$")>>)),
       LetStmt(0, "A", CallExpr("ASC", <<Identifier("S$")>>))>> : n \in ChrCodes}

\* X = l op r for every binary operator, on the strings "5", "a", "" and
\* " 2 " and the numbers 0, 2 and 3 in both orders, and on two operands of
\* one kind
BinaryOperators ==
    {"+", "-", "*", "/", "\\", "^", "MOD", "=", "<>", "<", ">", "<=", ">=",
     "AND", "OR", "XOR", "EQV", "IMP"}
MixedStrings == {StringLiteral(<<53>>), StringLiteral(<<97>>), StringLiteral(<<>>),
                 StringLiteral(<<32, 50, 32>>)}
MixedNumbers == {Lit(0), Lit(2), Lit(3)}
MixedPrograms ==
    {<<LetStmt(0, "X", BinaryExpr(op, l, r))>> :
        op \in BinaryOperators,
        l \in MixedStrings \cup MixedNumbers, r \in MixedStrings \cup MixedNumbers}

\* PUT of a suffixed variable, then GET into it, on a BINARY or RANDOM file
PutSlot ==
    UNION {{<<v, RemStmt(0)>>, <<v, Assign(v, 5)>>, <<v, Assign(v, 300)>>} : v \in {"N%", "N&"}}
      \cup {<<"N&", Assign("N&", 70000)>>}
      \cup {<<"N#", a>> : a \in {RemStmt(0), Assign("N#", 5),
                                  LetStmt(0, "N#", BinaryExpr("+", Lit(2), Lit(3))),
                                  LetStmt(0, "N#", BinaryExpr("-", Lit(0), Lit(2)))}}
      \cup {<<"N!", a>> : a \in {RemStmt(0),
                                  LetStmt(0, "N!", BinaryExpr("+", Lit(2), Lit(3)))}}
PutPrograms ==
    {<<Open(F, mode, 1), va[2], PutStmt(0, Lit(1), p1, Identifier(va[1])),
       GetStmt(0, Lit(1), p2, Identifier(va[1]))>> :
        mode \in {"BINARY", "RANDOM"}, va \in PutSlot,
        p1 \in {NoExpr, Lit(1), Lit(2)}, p2 \in {NoExpr, Lit(1), Lit(2)}}

\* a string written with PRINT # and read back with LINE INPUT #; a string
\* literal cannot hold a carriage return or a newline, CHR$ makes them
Chr(n) == CallExpr("CHR$", <<Lit(n)>>)
Plus(l, r) == BinaryExpr("+", l, r)
TextSlot ==
    {StringLiteral(<<>>), StringLiteral(<<97>>), StringLiteral(<<32, 97, 32>>),
     Chr(200), Plus(StringLiteral(<<97>>), Chr(CR)), Plus(Chr(CR), StringLiteral(<<97>>)),
     Plus(StringLiteral(<<97>>), Chr(LF)), Plus(StringLiteral(<<97>>), Lit(5)), Chr(256)}
TextPrograms ==
    {<<LetStmt(0, "S$", s), Open(F, "OUTPUT", 1),
       PrintFileStmt(0, Lit(1), <<PrintItem(Identifier("S$"), "")>>, FALSE), Close(<<1>>),
       Open(F, mode, 1), LineInputFileStmt(0, Lit(1), Identifier("T$")), Close(<<1>>)>> :
        s \in TextSlot, mode \in {"INPUT", "BINARY"}}

\* divisions: by zero, by a fraction that int64() makes zero, by other
\* numbers; at the top level and inside the body of an IF
Dividends == {Lit(7), BinaryExpr("-", Lit(0), Lit(7)), FloatLiteral("1.5", 3, 2)}
Divisors ==
    {Lit(0), Lit(2), FloatLiteral("0.5", 1, 2), FloatLiteral("2.5", 5, 2), Identifier("z"),
     BinaryExpr("-", Lit(0), FloatLiteral("0.5", 1, 2)), BinaryExpr("-", Lit(0), Lit(2)),
     BinaryExpr("-", Lit(1), Lit(1))}
DivisionPrograms ==
    {<<LetStmt(0, "x", BinaryExpr(op, l, r)), Assign("y", 1)>> :
        op \in {"/", "\\", "MOD", "*"}, l \in Dividends, r \in Divisors}
      \cup {<<IfStmt(0, Lit(1), <<LetStmt(0, "x", BinaryExpr(op, Lit(7), r))>>, <<>>),
              Assign("y", 1)>> :
                op \in {"/", "\\", "MOD"}, r \in Divisors}

\* FOR loops: steps up and down, whole and fractional, limits reached exactly
\* and stepped over, no iteration at all; bodies that leave the loop variable
\* alone, assign it, and assign the variables the limit and the step name
ForBodies ==
    {<<RemStmt(0)>>, <<Assign("x", 5)>>, <<Incr("x")>>, <<Assign("n", 0), Assign("s", 2)>>}
ForPrograms ==
    {<<Assign("n", 3), Assign("s", 1), ForStmt(0, "x", a, b, s, body), Assign("y", 1)>> :
        a \in {Lit(1), Lit(3), FloatLiteral("1.5", 3, 2)},
        b \in {Lit(1), Lit(3), Identifier("n")},
        s \in {NoExpr, Lit(2), BinaryExpr("-", Lit(0), Lit(1)), FloatLiteral("0.5", 1, 2),
               Identifier("s")},
        body \in ForBodies}

\* EXIT in nested loops: a loop of each kind in the body of a loop of each
\* kind, the EXIT bare or in a branch of an IF; EXIT outside every loop; EXIT
\* in a SUB called from the body of a loop
LoopKinds == {"FOR", "WHILE", "DO"}
LoopOf(kind, name, body) ==
    CASE kind = "FOR" -> ForStmt(0, name, Lit(1), Lit(2), NoExpr, body)
      [] kind = "WHILE" -> WhileStmt(0, Cmp(name, "<", 2), body)
      [] kind = "DO" -> DoLoopStmt(0, Cmp(name, ">=", 2), "POST", "UNTIL", body)
ExitItems ==
    UNION {{ExitStmt(0, k),
            IfStmt(0, Cmp("x", ">=", 0), <<ExitStmt(0, k)>>, <<>>),
            IfStmt(0, Cmp("x", "<", 0), <<Incr("w")>>, <<ExitStmt(0, k)>>)} : k \in LoopKinds}
ExitPrograms ==
    {<<Assign("x", 0),
       LoopOf(o, "x", <<Incr("x"), LoopOf(n, "z", <<Incr("z"), e, Incr("w")>>), Incr("y")>>),
       Assign("v", 1)>> : o \in LoopKinds, n \in LoopKinds, e \in ExitItems}
      \cup {<<Assign("x", 0), e, Assign("v", 1)>> : e \in ExitItems}
      \cup {<<Assign("x", 0),
               LoopOf(o, "x", <<Incr("x"), SubCallStmt(0, "s", <<>>), Incr("y")>>),
               Assign("v", 1), EndStmt(0),
               SubStatement(0, "s", <<>>, <<Incr("w"), ExitStmt(0, k), Incr("u")>>)>> :
                o \in LoopKinds, k \in LoopKinds}

DataPrograms ==
    {Call("ProgramOf", <<Numbered(p, 0), 1, NewProgram>>) :
        p \in KindPrograms \cup ElementPrograms \cup IndexPrograms \cup RedimPrograms
                \cup ConstPrograms \cup ScopePrograms \cup NamePrograms \cup ReadPrograms
                \cup OpenPrograms \cup PutPrograms \cup TextPrograms
                \cup DivisionPrograms \cup ForPrograms \cup ExitPrograms \cup FilePrograms \cup HeldPrograms
                \cup ChrPrograms \cup MixedPrograms}

\* --------------------------------------------------------------------------
\* The machine
\* --------------------------------------------------------------------------
Cur == Interp(env, heap, state, goStack, signal, result, calls, files, disk, trace,
              recording, host)

\* the step to the interpreter S; a computation that has left the values
\* of the model is no step
Becomes(S) ==
    /\ S.signal.kind # "beyond"
    /\ env' = S.env
    /\ heap' = S.heap
    /\ state' = S.state
    /\ goStack' = S.goStack
    /\ signal' = S.signal
    /\ result' = S.result
    /\ calls' = S.calls
    /\ files' = S.files
    /\ disk' = S.disk
    /\ trace' = S.trace
    /\ host' = S.host

\* Becomes(S) can be taken and changes the state
CanBecome(S) ==
    /\ S.signal.kind # "beyond"
    /\ <<S.env, S.heap, S.state, S.goStack, S.signal, S.result, S.calls, S.files, S.disk,
         S.trace, S.host>>
            # <<env, heap, state, goStack, signal, result, calls, files, disk, trace, host>>

\* the host of a run: nothing typed, nothing printed yet, and the numbers
\* the generator and the clock will give
NewHost(random, clock) == [input |-> <<>>, output |-> <<>>, random |-> random, clock |-> clock]
NoHost == NewHost(<<>>, <<>>)

Init ==
    /\ tokens = <<>>
    /\ program \in Programs
    /\ env = 1
    /\ heap = <<NewEnvironment>>
    /\ state = NewExecutionState
    /\ goStack = <<>>
    /\ signal = NoSignal
    /\ result = "ready"
    /\ trace = <<>>
    /\ calls = <<>>
    /\ files = EmptyMap
    /\ disk = EmptyMap
    /\ host = NoHost
    /\ stopCalled = FALSE
    /\ recording = TRUE

\* Run, up to its loop
Start ==
    /\ result = "ready"
    /\ state' = [state EXCEPT !.Running = TRUE, !.ProgramCounter = 0]
    /\ result' = "running"
    /\ UNCHANGED <<tokens, program, env, heap, goStack, signal, trace, calls, files, disk,
                   host, stopCalled, recording>>

\* one iteration of Run's loop, up to the return of a simple statement or the
\* entry into the body of a structured one
RunStatement ==
    /\ result = "running" /\ signal = NoSignal /\ goStack = <<>>
    /\ state.Running /\ state.ProgramCounter < Len(program.Statements)
    /\ Becomes(Call("Dispatch", <<program, Cur, program.Statements[state.ProgramCounter + 1]>>))
    /\ UNCHANGED <<tokens, program, stopCalled, recording>>

\* Run's loop condition is false: return nil
RunReturn ==
    /\ result = "running" /\ signal = NoSignal /\ goStack = <<>>
    /\ ~(state.Running /\ state.ProgramCounter < Len(program.Statements))
    /\ result' = "ok"
    /\ UNCHANGED <<tokens, program, env, heap, state, goStack, signal, trace, calls, files, disk,
                   host, stopCalled, recording>>

\* a statement returned an error to Run: return it
RunFail ==
    /\ result = "running" /\ signal # NoSignal /\ goStack = <<>>
    /\ result' = IF signal.kind = "panic" THEN "crashed" ELSE "error"
    /\ UNCHANGED <<tokens, program, env, heap, state, goStack, signal, trace, calls, files, disk,
                   host, stopCalled, recording>>

\* one iteration of a body loop (for _, stmt := range body)
BodyStatement ==
    /\ result = "running" /\ signal = NoSignal /\ goStack # <<>>
    /\ Last(goStack).idx <= Len(Last(goStack).body)
    /\ Becomes(Call("Dispatch", <<program, [Cur EXCEPT !.goStack[Len(goStack)].idx = @ + 1],
                        Last(goStack).body[Last(goStack).idx]>>))
    /\ UNCHANGED <<tokens, program, stopCalled, recording>>

\* a body loop has run out of statements
BodyReturn ==
    /\ result = "running" /\ signal = NoSignal /\ goStack # <<>>
    /\ Last(goStack).idx > Len(Last(goStack).body)
    /\ Becomes(Call("BodyEnd", <<program, Cur>>))
    /\ UNCHANGED <<tokens, program, stopCalled, recording>>

\* a body statement returned an error to the activation that runs the body
Unwind ==
    /\ result = "running" /\ signal # NoSignal /\ goStack # <<>>
    /\ Becomes(Call("Propagate", <<Cur>>))
    /\ UNCHANGED <<tokens, program, stopCalled, recording>>

\* Interpreter.Stop, called by the host while Run executes
Stop ==
    /\ result = "running" /\ ~stopCalled
    /\ state' = [state EXCEPT !.Running = FALSE]
    /\ stopCalled' = TRUE
    /\ UNCHANGED <<tokens, program, env, heap, goStack, signal, result, trace, calls, files, disk,
                   host, recording>>

InitData ==
    /\ tokens = <<>>
    /\ program \in DataPrograms
    /\ env = 1
    /\ heap = <<NewEnvironment>>
    /\ state = NewExecutionState
    /\ goStack = <<>>
    /\ signal = NoSignal
    /\ result = "ready"
    /\ trace = <<>>
    /\ calls = <<>>
    /\ files = EmptyMap
    /\ disk = EmptyMap
    /\ host = NoHost
    /\ stopCalled = FALSE
    /\ recording = TRUE

Next == Start \/ RunStatement \/ RunReturn \/ RunFail \/ BodyStatement \/ BodyReturn
           \/ Unwind

Spec == Init /\ [][Next]_vars

\* the same machine on the programs over variables, arrays, constants and DATA
SpecData == InitData /\ [][Next]_vars

TypeOK ==
    /\ result \in {"lexing", "parsing", "rejected", "ready", "running", "ok", "error", "crashed",
                 "editing"}
    /\ env \in 1..Len(heap)
    /\ Len(trace) <= MaxSteps

\* the source texts of the parser model: three lines, each with or without
\* its line number (10, 20, 30)
LineNumberText(l) ==
    CASE l = 1 -> "10"
      [] l = 2 -> "20"
      [] OTHER -> "30"

StatementTexts(l) ==
    {<<Tok("END", "END", l)>>,
     <<Tok("REM", "REM", l)>>,
     <<Tok("IDENT", "x", l), Tok("EQ", "=", l), Tok("INTEGER", "1", l)>>,
     <<Tok("DATA", "DATA", l), Tok("INTEGER", "1", l), Tok("COMMA", ",", l),
       Tok("INTEGER", "2", l)>>,
     <<Tok("GOTO", "GOTO", l), Tok("INTEGER", "30", l)>>,
     <<Tok("GOSUB", "GOSUB", l), Tok("INTEGER", "30", l)>>,
     <<Tok("RETURN", "RETURN", l)>>}

LineTexts(l) ==
    StatementTexts(l)
      \cup {<<Tok("LINE_NUMBER", LineNumberText(l), l)>> \o t : t \in StatementTexts(l)}
      \cup {<<Tok("LINE_NUMBER", LineNumberText(l), l)>>}

\* a statement, then a SUB whose body is one statement
SubSources ==
    {l1 \o <<Tok("NEWLINE", "", 1), Tok("SUB", "SUB", 2), Tok("IDENT", "s", 2),
              Tok("NEWLINE", "", 2)>>
        \o l3 \o <<Tok("NEWLINE", "", 3), Tok("END", "END", 4), Tok("SUB", "SUB", 4),
                    Tok("EOF", "", 4)>> :
        l1 \in StatementTexts(1), l3 \in StatementTexts(3)}

\* OPEN "f" FOR mode AS #1 with and without LEN = 2, then SEEK #1, p
OpenTexts ==
    {<<Tok("OPEN", "OPEN", 1), Tok("STRING", "f", 1), Tok("FOR", "FOR", 1), mode,
       Tok("AS", "AS", 1), Tok("HASH", "#", 1), Tok("INTEGER", "1", 1)>> \o len :
        mode \in {Tok("RANDOM", "RANDOM", 1), Tok("BINARY", "BINARY", 1)},
        len \in {<<>>, <<Tok("IDENT", "LEN", 1), Tok("EQ", "=", 1), Tok("INTEGER", "2", 1)>>}}
OpenSources ==
    {l1 \o <<Tok("NEWLINE", "", 1), Tok("SEEK", "SEEK", 2), Tok("HASH", "#", 2),
              Tok("INTEGER", "1", 2), Tok("COMMA", ",", 2), Tok("INTEGER", p, 2),
              Tok("EOF", "", 2)>> :
        l1 \in OpenTexts, p \in {"1", "2"}}

\* x = v, then a SELECT CASE x of two clauses with or without a CASE ELSE,
\* each body one assignment to y on a line of its own; END SELECT on its own
\* line or after a colon; then z = 1
Let(name, lit, l) == <<Tok("IDENT", name, l), Tok("EQ", "=", l), Tok("INTEGER", lit, l)>>
CaseTexts(l) ==
    {<<Tok("INTEGER", "1", l)>>,
     <<Tok("INTEGER", "2", l)>>,
     <<Tok("INTEGER", "1", l), Tok("TO", "TO", l), Tok("INTEGER", "2", l)>>,
     <<Tok("IDENT", "IS", l), Tok("GT", ">", l), Tok("INTEGER", "2", l)>>,
     <<Tok("NE", "<>", l), Tok("INTEGER", "10", l)>>,
     <<Tok("INTEGER", "10", l), Tok("COMMA", ",", l), Tok("INTEGER", "1", l)>>}
ElseTexts ==
    {<<>>,
     <<Tok("CASE", "CASE", 7), Tok("ELSE", "ELSE", 7), Tok("NEWLINE", "", 7)>>
        \o Let("y", "30", 8)}
EndTexts(l) ==
    {<<Tok("NEWLINE", "", l), Tok("END", "END", l + 1), Tok("SELECT", "SELECT", l + 1),
       Tok("NEWLINE", "", l + 1)>>,
     <<Tok("COLON", ":", l), Tok("END", "END", l), Tok("SELECT", "SELECT", l),
       Tok("NEWLINE", "", l)>>}
SelectWith(else, last) ==
    {Let("x", v, 1)
        \o <<Tok("NEWLINE", "", 1), Tok("SELECT", "SELECT", 2), Tok("CASE", "CASE", 2),
              Tok("IDENT", "x", 2), Tok("NEWLINE", "", 2), Tok("CASE", "CASE", 3)>>
        \o c1 \o <<Tok("NEWLINE", "", 3)>> \o Let("y", "10", 4)
        \o <<Tok("NEWLINE", "", 4), Tok("CASE", "CASE", 5)>>
        \o c2 \o <<Tok("NEWLINE", "", 5)>> \o Let("y", "20", 6)
        \o (IF else = <<>> THEN <<>> ELSE <<Tok("NEWLINE", "", 6)>> \o else)
        \o end \o Let("z", "1", 10) \o <<Tok("EOF", "", 10)>> :
        v \in {"1", "2", "10"}, c1 \in CaseTexts(3), c2 \in CaseTexts(5),
        end \in EndTexts(last)}
SelectSources == UNION {SelectWith(else, IF else = <<>> THEN 6 ELSE 8) : else \in ElseTexts}

\* FOR i = 1 TO 2 around y = 1 and, with or without it, a FOR j = 1 TO 2
\* around x = 1 or a RETURN, which fails in the body; each NEXT bare or
\* followed by a name; then z = 1
NextNames == {"", "i", "j"}
NextText(name, l) ==
    <<Tok("NEXT", "NEXT", l)>> \o (IF name = "" THEN <<>> ELSE <<Tok("IDENT", name, l)>>)
        \o <<Tok("NEWLINE", "", l)>>
ForHead(name, l) ==
    <<Tok("FOR", "FOR", l), Tok("IDENT", name, l), Tok("EQ", "=", l), Tok("INTEGER", "1", l),
      Tok("TO", "TO", l), Tok("INTEGER", "2", l), Tok("NEWLINE", "", l)>>
InnerTexts ==
    {<<>>, <<Tok("RETURN", "RETURN", 3), Tok("NEWLINE", "", 3)>>}
      \cup {ForHead("j", 3) \o Let("x", "1", 4) \o <<Tok("NEWLINE", "", 4)>>
                \o NextText(n, 5) : n \in NextNames}
ForSources ==
    {ForHead("i", 1) \o Let("y", "1", 2) \o <<Tok("NEWLINE", "", 2)>> \o inner
        \o NextText(n, 6) \o Let("z", "1", 7) \o <<Tok("EOF", "", 7)>> :
        inner \in InnerTexts, n \in NextNames}

Sources ==
    {l1 \o <<Tok("NEWLINE", "", 1)>> \o l2 \o <<Tok("NEWLINE", "", 2)>> \o l3
        \o <<Tok("EOF", "", 3)>> :
        l1 \in LineTexts(1), l2 \in LineTexts(2), l3 \in LineTexts(3)}
      \cup SubSources \cup OpenSources \cup SelectSources \cup ForSources

Suffix(s, k) == SubSeq(s, k, Len(s))

InitParse ==
    /\ tokens \in {[stream |-> src, cur |-> 1, errors |-> 0] : src \in Sources}
    /\ program = NewProgram
    /\ env = 1
    /\ heap = <<NewEnvironment>>
    /\ state = NewExecutionState
    /\ goStack = <<>>
    /\ signal = NoSignal
    /\ result = "parsing"
    /\ trace = <<>>
    /\ calls = <<>>
    /\ files = EmptyMap
    /\ disk = EmptyMap
    /\ stopCalled = FALSE
    /\ recording = TRUE
    /\ host = NoHost

\* the Parser at the position ParseProgram has reached
Here ==
    [toks |-> Suffix(tokens.stream, tokens.cur), errors |-> tokens.errors, hang |-> FALSE,
     beyond |-> FALSE]
Position(p) == Len(tokens.stream) - Len(p.toks) + 1

\* one iteration of ParseProgram's loop; a statement parser that does not
\* return leaves ParseProgram where it is
ParseStatement ==
    /\ result = "parsing"
    /\ ~curTokenIs(Here, "EOF")
    /\ LET With(r) ==
               /\ ~r.p.hang /\ ~r.p.beyond
               /\ program' = IF r.stmt = NoStmt THEN program
                             ELSE Call("AddStatement", <<program, r.stmt>>)
               /\ tokens' = [tokens EXCEPT !.cur = Position(nextToken(r.p)),
                                           !.errors = r.p.errors]
       IN With(Call("parseStatement", <<Here>>))
    /\ UNCHANGED <<env, heap, state, goStack, signal, result, trace, calls, files, disk,
                   stopCalled, recording, host>>

\* ParseProgram returns.  runProgram shows the messages of p.Errors() and
\* returns when there are any; otherwise interpreter.New(program)
ParseDone ==
    /\ result = "parsing"
    /\ curTokenIs(Here, "EOF")
    /\ result' = IF tokens.errors > 0 THEN "rejected" ELSE "ready"
    /\ UNCHANGED <<tokens, program, env, heap, state, goStack, signal, trace, calls, files, disk,
                   stopCalled, recording, host>>

NextParse ==
    \/ ParseStatement \/ ParseDone \/ Start \/ RunStatement \/ RunReturn \/ RunFail
    \/ BodyStatement \/ BodyReturn \/ Unwind

SpecParse == InitParse /\ [][NextParse]_vars

\* the parser on assignments x = e, where e is a op b op c, or has a unary
\* NOT or - before its first or its second operand
OperatorTokens == InfixTokens \ {"LPAREN"}
Operand(name) == <<Tok("IDENT", name, 1)>>
Operator(type) == <<Tok(type, tokenToOperator(type), 1)>>
ExprTexts ==
    {Operand("a") \o Operator(o1) \o Operand("b") \o Operator(o2) \o Operand("c") :
        o1 \in OperatorTokens, o2 \in OperatorTokens}
      \cup {Operator(u) \o Operand("a") \o Operator(o) \o Operand("b") :
                u \in {"NOT", "MINUS"}, o \in OperatorTokens}
      \cup {Operand("a") \o Operator(o) \o Operator(u) \o Operand("b") :
                u \in {"NOT", "MINUS"}, o \in OperatorTokens}
ExprSources ==
    {<<Tok("IDENT", "x", 1), Tok("EQ", "=", 1)>> \o e \o <<Tok("EOF", "", 1)>> :
        e \in ExprTexts}

InitExpr ==
    /\ tokens \in {[stream |-> src, cur |-> 1, errors |-> 0] : src \in ExprSources}
    /\ program = NewProgram
    /\ env = 1
    /\ heap = <<NewEnvironment>>
    /\ state = NewExecutionState
    /\ goStack = <<>>
    /\ signal = NoSignal
    /\ result = "parsing"
    /\ trace = <<>>
    /\ calls = <<>>
    /\ files = EmptyMap
    /\ disk = EmptyMap
    /\ stopCalled = FALSE
    /\ recording = FALSE
    /\ host = NoHost

NextExpr == ParseStatement \/ ParseDone

SpecExpr == InitExpr /\ [][NextExpr]_vars

\* --------------------------------------------------------------------------
\* ParseProgram with the loops of parseDimStatement / parseRedimStatement
\* taken one iteration at a time.  tokens also holds the number of errors
\* these loops have appended to p.errors and, while a DIM or REDIM is being
\* parsed, the statement built so far: dim is <<>> or
\* <<[type, Line, Flag, Variables, Name, Dimensions, more, at]>>,
\* at "variable" before a declaration, "dims" in the loop over the
\* dimensions, "close" after it.
\*
\* The loop over the dimensions has no bound: once curToken is EOF every
\* iteration leaves it there, appends a nil dimension and a message to
\* p.errors, and goes round again.  The model holds a list of dimensions in
\* full up to MaxDims of them.  Of a longer list, which the model follows at
\* EOF only, it holds the last MaxDims dimensions and, in more, whether the
\* number of dimensions before those is odd (1) or even (0); the messages of
\* these further iterations are not counted.  So the iterations at EOF go on
\* for ever in the model as in the code, each one a change of state.
\* --------------------------------------------------------------------------
MaxDims == 16

\* append(dimVar.Dimensions, dim) on the list as the model holds it
AppendDimension(dv, dim) ==
    IF Len(dv.Dimensions) < MaxDims
    THEN [dv EXCEPT !.Dimensions = Append(@, dim)]
    ELSE [dv EXCEPT !.Dimensions = Append(Tail(@), dim), !.more = 1 - @]

\* the position parseStatement starts from
AtStatement == skipNewlines(Here)

\* parseStatement reaches parseDimStatement, which steps over DIM, SHARED and
\* STATIC, or parseRedimStatement, which steps over REDIM and PRESERVE
DimBegin ==
    /\ result = "parsing" /\ tokens.dim = <<>>
    /\ curToken(AtStatement).Type \in {"DIM", "REDIM"}
    /\ LET isDim == curTokenIs(AtStatement, "DIM")
           Begun(flag, static, t) ==
               tokens' = [tokens EXCEPT
                   !.cur = Position(t),
                   !.dim = <<[type |-> IF isDim THEN "DimStmt" ELSE "RedimStmt",
                              Line |-> curToken(AtStatement).Line,
                              Flag |-> flag, Static |-> static,
                              Variables |-> <<>>, Name |-> "", Dimensions |-> <<>>,
                              more |-> 0, at |-> "variable"]>>]
           Second(flag, t) ==
               IF isDim /\ curTokenIs(t, "STATIC") THEN Begun(flag, TRUE, nextToken(t))
               ELSE Begun(flag, FALSE, t)
           With(t) ==
               IF curTokenIs(t, IF isDim THEN "SHARED" ELSE "PRESERVE")
               THEN Second(TRUE, nextToken(t))
               ELSE Second(FALSE, t)
       IN With(nextToken(AtStatement))
    /\ UNCHANGED <<program, env, heap, state, goStack, signal, result, trace, calls, files,
                   disk, stopCalled, recording, host>>

\* the head of a declaration: its name, and the ( that opens its dimensions
DimOpen ==
    /\ result = "parsing" /\ tokens.dim # <<>> /\ tokens.dim[1].at = "variable"
    /\ tokens' = IF peekTokenIs(Here, "LPAREN")
                 THEN [tokens EXCEPT !.cur = Position(nextToken(nextToken(Here))),
                                     !.dim[1].Name = curToken(Here).Literal,
                                     !.dim[1].Dimensions = <<>>, !.dim[1].more = 0,
                                     !.dim[1].at = "dims"]
                 ELSE [tokens EXCEPT !.dim[1].Name = curToken(Here).Literal,
                                     !.dim[1].Dimensions = <<>>, !.dim[1].more = 0,
                                     !.dim[1].at = "close"]
    /\ UNCHANGED <<program, env, heap, state, goStack, signal, result, trace, calls, files,
                   disk, stopCalled, recording, host>>

\* the list of dimensions is one the model holds in full, or the loop is at
\* EOF, which it does not leave
DimFollowed == Len(tokens.dim[1].Dimensions) < MaxDims \/ curTokenIs(Here, "EOF")

\* one iteration of the loop for !p.curTokenIs(lexer.TOKEN_RPAREN): the loop
\* has no other test, and appends what parseExpression returns, nil
\* included.  An expression with a literal outside the numbers of the
\* model is not followed
DimStep ==
    /\ result = "parsing" /\ tokens.dim # <<>> /\ tokens.dim[1].at = "dims"
    /\ ~curTokenIs(Here, "RPAREN")
    /\ DimFollowed
    /\ LET With(e) ==
               /\ ~e.p.hang /\ ~e.p.beyond
               /\ tokens' = [tokens EXCEPT
                      !.cur = Position(nextToken(IF peekTokenIs(e.p, "COMMA")
                                                 THEN nextToken(e.p) ELSE e.p)),
                      !.errors = IF Len(tokens.dim[1].Dimensions) < MaxDims
                                 THEN e.p.errors ELSE @,
                      !.dim[1] = AppendDimension(@, e.expr)]
       IN With(Call("parseExpression", <<Here, LOWEST>>))
    /\ UNCHANGED <<program, env, heap, state, goStack, signal, result, trace, calls, files,
                   disk, stopCalled, recording, host>>

\* the end of a declaration: AS type, the next declaration after a comma, or
\* the end of the statement and of the iteration of ParseProgram's loop
DimClose ==
    /\ result = "parsing" /\ tokens.dim # <<>>
    /\ \/ tokens.dim[1].at = "close"
       \/ tokens.dim[1].at = "dims" /\ curTokenIs(Here, "RPAREN")
    /\ LET Typed(t) == IF peekTokenIs(t, "AS") THEN nextToken(nextToken(t)) ELSE t
           Var(t) ==
               [Name |-> tokens.dim[1].Name, Dimensions |-> tokens.dim[1].Dimensions,
                DataType |-> IF peekTokenIs(t, "AS") THEN parseDataType(Typed(t))
                             ELSE "UNKNOWN"]
           Stmt(vs) ==
               IF tokens.dim[1].type = "DimStmt"
               THEN [DimStmt(tokens.dim[1].Line, vs, tokens.dim[1].Flag)
                        EXCEPT !.Static = tokens.dim[1].Static]
               ELSE RedimStmt(tokens.dim[1].Line, tokens.dim[1].Flag, vs)
           With(t, vs) ==
               IF peekTokenIs(t, "COMMA")
               THEN /\ tokens' = [tokens EXCEPT !.cur = Position(nextToken(nextToken(t))),
                                                !.dim[1].Variables = vs,
                                                !.dim[1].at = "variable"]
                    /\ program' = program
               ELSE /\ tokens' = [tokens EXCEPT !.cur = Position(nextToken(t)), !.dim = <<>>]
                    /\ program' = Call("AddStatement", <<program, Stmt(vs)>>)
       IN With(Typed(Here), Append(tokens.dim[1].Variables, Var(Here)))
    /\ UNCHANGED <<env, heap, state, goStack, signal, result, trace, calls, files, disk,
                   stopCalled, recording, host>>

\* an iteration of ParseProgram's loop on any other statement
DimOther ==
    /\ tokens.dim = <<>>
    /\ curToken(AtStatement).Type \notin {"DIM", "REDIM"}
    /\ ParseStatement

\* ParseProgram returns
DimDone ==
    /\ tokens.dim = <<>>
    /\ ParseDone

\* DIM and REDIM statements with closed and unclosed lists of dimensions,
\* assignments, and a call with an unclosed argument list
DimTexts(l) ==
    {<<Tok("DIM", "DIM", l), Tok("IDENT", "a", l), Tok("LPAREN", "(", l),
       Tok("INTEGER", "1", l)>> \o close : close \in {<<>>, <<Tok("RPAREN", ")", l)>>}}
      \cup {<<Tok("DIM", "DIM", l), Tok("SHARED", "SHARED", l), Tok("IDENT", "a", l),
               Tok("LPAREN", "(", l), Tok("INTEGER", "1", l), Tok("COMMA", ",", l),
               Tok("INTEGER", "2", l)>> \o close : close \in {<<>>, <<Tok("RPAREN", ")", l)>>}}
      \cup {<<Tok("REDIM", "REDIM", l), Tok("IDENT", "a", l), Tok("LPAREN", "(", l),
               Tok("INTEGER", "2", l)>> \o close : close \in {<<>>, <<Tok("RPAREN", ")", l)>>}}
      \cup {<<Tok("DIM", "DIM", l), Tok("IDENT", "x", l), Tok("COMMA", ",", l),
               Tok("IDENT", "b", l), Tok("LPAREN", "(", l), Tok("INTEGER", "2", l),
               Tok("RPAREN", ")", l), Tok("AS", "AS", l), Tok("LONG_TYPE", "LONG", l)>>,
             Let("x", "1", l),
             <<Tok("RPAREN", ")", l)>>,
             <<Tok("IDENT", "x", l), Tok("EQ", "=", l), Tok("IDENT", "f", l),
               Tok("LPAREN", "(", l), Tok("INTEGER", "1", l)>>,
             <<Tok("IDENT", "x", l), Tok("EQ", "=", l), Tok("LPAREN", "(", l),
               Tok("INTEGER", "1", l)>>}
DimSources ==
    {l1 \o <<Tok("NEWLINE", "", 1)>> \o l2 \o end :
        l1 \in DimTexts(1), l2 \in DimTexts(2),
        end \in {<<Tok("EOF", "", 2)>>, <<Tok("NEWLINE", "", 2), Tok("EOF", "", 3)>>}}

InitDim ==
    /\ tokens \in {[stream |-> src, cur |-> 1, errors |-> 0, dim |-> <<>>] :
                      src \in DimSources}
    /\ program = NewProgram
    /\ env = 1
    /\ heap = <<NewEnvironment>>
    /\ state = NewExecutionState
    /\ goStack = <<>>
    /\ signal = NoSignal
    /\ result = "parsing"
    /\ trace = <<>>
    /\ calls = <<>>
    /\ files = EmptyMap
    /\ disk = EmptyMap
    /\ stopCalled = FALSE
    /\ recording = FALSE
    /\ host = NoHost

NextDim == DimBegin \/ DimOpen \/ DimStep \/ DimClose \/ DimOther \/ DimDone

\* the steps that call parseExpression or parseStatement
DimParse == DimStep \/ DimOther

\* ENABLED <<DimParse>>_vars, written out: an iteration of the loop over the
\* dimensions, which changes the list or more, or a statement parser that
\* returns, which moves the position
DimParseEnabled ==
    /\ result = "parsing"
    /\ IF tokens.dim # <<>>
       THEN /\ tokens.dim[1].at = "dims" /\ ~curTokenIs(Here, "RPAREN")
            /\ DimFollowed
            /\ LET ComesBack(e) == ~e.p.hang /\ ~e.p.beyond
               IN ComesBack(Call("parseExpression", <<Here, LOWEST>>))
       ELSE /\ curToken(AtStatement).Type \notin {"DIM", "REDIM"}
            /\ ~curTokenIs(Here, "EOF")
            /\ ~Call("parseStatement", <<Here>>).p.hang /\ ~Call("parseStatement", <<Here>>).p.beyond

\* the parser runs on its own: every step it can take, it takes.  The weak
\* fairness of DimParse is written by its definition,
\* []<>~ENABLED <<A>>_v \/ []<><<A>>_v, with DimParseEnabled for ENABLED
SpecDim ==
    /\ InitDim
    /\ [][NextDim]_vars
    /\ WF_vars(DimBegin \/ DimOpen \/ DimClose \/ DimDone)
    /\ ([]<>~DimParseEnabled \/ []<><<DimParse>>_vars)

\* --------------------------------------------------------------------------
\* The IDE: the event handler of the UI thread and the goroutines that
\* runProgram starts, each taken one access to the fields they share at a
\* time.  Here state holds the fields of the Editor, the position of the UI
\* thread (at: "idle" in the event loop, otherwise the statement of
\* runProgram it executes next) and the number of messages of p.Errors()
\* runProgram has still to write (left); goStack holds the goroutines
\* started so far, each with the statement it executes next (pc); calls holds
\* the functions queued with QueueUpdateDraw that the UI thread has not run
\* yet.  state.interpreter counts the interpreters made with
\* interpreter.New, the last of them being e.interpreter, and
\* state.callbacks those of them that SetOutput has given the output
\* function of the editor.  The widgets are not in the model.
\*
\* e.running and e.interpreter are written by one thread and read by
\* another with no synchronisation between the two.  The UI thread is sure
\* to see a write to e.running only once it has run a function the goroutine
\* queued after the write (the queue is a channel); until then a read gives
\* the value last seen that way or the value in memory.  state.synced is the
\* former.  A goroutine is sure to see what the UI thread wrote before the
\* go statement that started it, and may or may not see what it wrote after.
\* --------------------------------------------------------------------------
\* the number of calls of runProgram the model follows (state.requests
\* counts them), and the number of times it lets a run call the output
\* function
MaxRuns == 2
MaxOutput == 1

NewEditor ==
    [running |-> FALSE, synced |-> FALSE, menuActive |-> FALSE, interpreter |-> 0,
     callbacks |-> 0, outputText |-> <<>>, showingOutput |-> FALSE, at |-> "idle",
     left |-> 0, requests |-> 0, loaded |-> <<>>]

\* e.outputText is a strings.Builder that the UI thread and the goroutines
\* write with no lock.  WriteString(s) is b.buf = append(b.buf, s...): a read
\* of b.buf and, later, a write of it.  The two are steps of their own: the
\* thread first holds what it read (loaded, <<>> outside a WriteString), then
\* stores that with s appended, so that whatever another thread has written
\* to the Builder in between is lost.  A write is followed as a whole: a
\* text in which the bytes of two overlapping writes are mixed is the text
\* of the write stored last
Load(text) == <<text>>
Store(loaded, s) == Append(loaded[1], s)

\* the keys of handleInput and handleMenuInput that matter here, the item
\* under the cursor of the menu (Other is an item whose action is nil or
\* touches no field of the model), and the text of the editor area: blank,
\* with one or two syntax errors, or a program
IdeKeys == {"F4", "F5", "F10", "Escape", "Enter"}
IdeItems == {"Start", "Toggle Output", "Other"}
IdeCodes == {"blank", "errors", "program"}
IdeErrors == {1, 2}

\* Editor.showOutput, hideOutput, toggleOutput, activateMenu and
\* deactivateMenu, on the fields of the model
showOutput(ed) == [ed EXCEPT !.showingOutput = TRUE]
hideOutput(ed) == [ed EXCEPT !.showingOutput = FALSE]
toggleOutput(ed) == IF ed.showingOutput THEN hideOutput(ed) ELSE showOutput(ed)
activateMenu(ed) == [ed EXCEPT !.menuActive = TRUE]
deactivateMenu(ed) == [ed EXCEPT !.menuActive = FALSE]

\* Editor.runProgram up to the end of the parse, which touches nothing the
\* goroutines touch but e.running: r is what the read of e.running gives,
\* code the text of the editor area, n the length of p.Errors().  What
\* follows the parse is ShowErrors and WriteErrors, or NewInterpreter,
\* ResetOutput, SetOutput and StartGoroutine
runProgram(ed, r, code, n) ==
    IF r \/ code = "blank" THEN ed
    ELSE IF code = "errors" THEN [ed EXCEPT !.at = "errors", !.left = n]
    ELSE [ed EXCEPT !.at = "program"]

\* Editor.handleInput on one key event, handleMenuInput when the menu is
\* active.  The status bar update that handleInput queues for a key it
\* passes on touches no field of the model
HandleInput ==
    /\ result = "editing" /\ state.at = "idle"
    /\ LET Ran(ed) ==
               /\ state.requests < MaxRuns
               /\ \E r \in {state.running, state.synced}, code \in IdeCodes :
                     \E n \in IF code = "errors" THEN IdeErrors ELSE {0} :
                        state' = runProgram([ed EXCEPT !.requests = @ + 1], r, code, n)
           Entered(item) ==
               CASE item = "Start" -> Ran(deactivateMenu(state))
                 [] item = "Toggle Output" -> state' = toggleOutput(deactivateMenu(state))
                 [] OTHER -> state' = deactivateMenu(state)
       IN \E key \in IdeKeys :
             IF state.menuActive
             THEN CASE key \in {"Escape", "F10"} -> state' = deactivateMenu(state)
                    [] key = "Enter" -> \E item \in IdeItems : Entered(item)
                    [] OTHER -> state' = state
             ELSE CASE key = "F4" -> state' = toggleOutput(state)
                    [] key = "F5" -> Ran(state)
                    [] key = "F10" -> state' = activateMenu(state)
                    [] key = "Escape" ->
                          state' = IF state.showingOutput THEN toggleOutput(state) ELSE state
                    [] OTHER -> state' = state
    /\ UNCHANGED <<tokens, program, env, heap, goStack, signal, result, trace, calls, files,
                   disk, stopCalled, recording, host>>

\* runProgram with syntax errors: e.showOutput() and e.outputText.Reset()
ShowErrors ==
    /\ result = "editing" /\ state.at = "errors"
    /\ state' = [showOutput(state) EXCEPT !.outputText = <<>>, !.at = "header"]
    /\ UNCHANGED <<tokens, program, env, heap, goStack, signal, result, trace, calls, files,
                   disk, stopCalled, recording, host>>

\* runProgram with syntax errors, one half of an e.outputText.WriteString at
\* a time: the heading, then one message per iteration of the loop over
\* p.Errors(); after the last, SetText and the return
WriteErrors ==
    /\ result = "editing" /\ state.at \in {"header", "messages"}
    /\ state' = IF state.loaded = <<>>
                THEN [state EXCEPT !.loaded = Load(state.outputText)]
                ELSE IF state.at = "header"
                THEN [state EXCEPT !.outputText = Store(state.loaded, "=== Syntax Errors ==="),
                                   !.loaded = <<>>, !.at = "messages"]
                ELSE [state EXCEPT !.outputText = Store(state.loaded, "error"),
                                   !.loaded = <<>>, !.left = @ - 1,
                                   !.at = IF state.left = 1 THEN "idle" ELSE "messages"]
    /\ UNCHANGED <<tokens, program, env, heap, goStack, signal, result, trace, calls, files,
                   disk, stopCalled, recording, host>>

\* runProgram with a program: e.interpreter = interpreter.New(program)
NewInterpreter ==
    /\ result = "editing" /\ state.at = "program"
    /\ state' = [state EXCEPT !.interpreter = @ + 1, !.at = "reset"]
    /\ UNCHANGED <<tokens, program, env, heap, goStack, signal, result, trace, calls, files,
                   disk, stopCalled, recording, host>>

\* e.outputText.Reset()
ResetOutput ==
    /\ result = "editing" /\ state.at = "reset"
    /\ state' = [state EXCEPT !.outputText = <<>>, !.at = "callbacks"]
    /\ UNCHANGED <<tokens, program, env, heap, goStack, signal, result, trace, calls, files,
                   disk, stopCalled, recording, host>>

\* e.interpreter.SetOutput(...); SetInput, which follows, gives the
\* interpreter an input function that touches no field of the editor
SetOutput ==
    /\ result = "editing" /\ state.at = "callbacks"
    /\ state' = [state EXCEPT !.callbacks = state.interpreter, !.at = "go"]
    /\ UNCHANGED <<tokens, program, env, heap, goStack, signal, result, trace, calls, files,
                   disk, stopCalled, recording, host>>

\* e.showOutput() and the go statement; runProgram returns.  born is the
\* interpreter e.interpreter held when the goroutine was started
StartGoroutine ==
    /\ result = "editing" /\ state.at = "go"
    /\ state' = [showOutput(state) EXCEPT !.at = "idle"]
    /\ goStack' = Append(goStack, [pc |-> "spawned", born |-> state.interpreter,
                                   interpreter |-> 0, printed |-> 0, err |-> FALSE,
                                   loaded |-> <<>>])
    /\ UNCHANGED <<tokens, program, env, heap, signal, result, trace, calls, files, disk,
                   stopCalled, recording, host>>

\* the goroutine: e.running = true
GoStart ==
    /\ result = "editing"
    /\ \E g \in 1..Len(goStack) :
          /\ goStack[g].pc = "spawned"
          /\ goStack' = [goStack EXCEPT ![g].pc = "banner"]
          /\ state' = [state EXCEPT !.running = TRUE]
    /\ UNCHANGED <<tokens, program, env, heap, signal, result, trace, calls, files, disk,
                   stopCalled, recording, host>>

\* the goroutine: e.outputText.WriteString("=== Running ===\n"), one half
\* at a time
GoBanner ==
    /\ result = "editing"
    /\ \E g \in 1..Len(goStack) :
          /\ goStack[g].pc = "banner"
          /\ IF goStack[g].loaded = <<>>
             THEN /\ goStack' = [goStack EXCEPT ![g].loaded = Load(state.outputText)]
                  /\ state' = state
             ELSE /\ goStack' = [goStack EXCEPT ![g].pc = "queue", ![g].loaded = <<>>]
                  /\ state' = [state EXCEPT !.outputText =
                                   Store(goStack[g].loaded, "=== Running ===")]
    /\ UNCHANGED <<tokens, program, env, heap, signal, result, trace, calls, files, disk,
                   stopCalled, recording, host>>

\* e.app.QueueUpdateDraw(...): by the goroutine after the banner and after
\* the closing banner, by the output function after its write.  The function
\* queued carries what the UI thread is sure to have seen once it has run it
GoQueue ==
    /\ result = "editing"
    /\ \E g \in 1..Len(goStack) :
          /\ goStack[g].pc \in {"queue", "printed", "last"}
          /\ goStack' = [goStack EXCEPT ![g].pc = CASE @ = "queue" -> "run"
                                                   [] @ = "printed" -> "running"
                                                   [] @ = "last" -> "done"]
          /\ calls' = Append(calls, [running |-> state.running])
    /\ UNCHANGED <<tokens, program, env, heap, state, signal, result, trace, files, disk,
                   stopCalled, recording, host>>

\* the goroutine calls e.interpreter.Run(): on the interpreter it reads in
\* the field, the one the field held when the goroutine was started or one
\* written since
GoRun ==
    /\ result = "editing"
    /\ \E g \in 1..Len(goStack) :
          /\ goStack[g].pc = "run"
          /\ \E i \in goStack[g].born..state.interpreter :
                goStack' = [goStack EXCEPT ![g].pc = "running", ![g].interpreter = i]
    /\ UNCHANGED <<tokens, program, env, heap, state, signal, result, trace, calls, files,
                   disk, stopCalled, recording, host>>

\* Run prints (Interpreter.print): with the output function of the editor,
\* which writes to e.outputText, one half of the WriteString at a time, and
\* has a redraw to queue, when the goroutine sees that SetOutput has set it;
\* nowhere when i.output is nil for it (interpreter.New sets no screen).  The
\* goroutine is sure to see the function of the interpreter it was started
\* for
GoOutput ==
    /\ result = "editing"
    /\ \E g \in 1..Len(goStack) :
          IF goStack[g].pc = "output"
          THEN /\ goStack' = [goStack EXCEPT ![g].pc = "printed", ![g].loaded = <<>>]
               /\ state' = [state EXCEPT !.outputText = Store(goStack[g].loaded, "output")]
          ELSE /\ goStack[g].pc = "running" /\ goStack[g].printed < MaxOutput
               /\ \E set \in {goStack[g].interpreter <= state.callbacks,
                              goStack[g].interpreter = goStack[g].born} :
                     goStack' = [goStack EXCEPT
                                    ![g].pc = IF set THEN "output" ELSE @,
                                    ![g].loaded = IF set THEN Load(state.outputText) ELSE @,
                                    ![g].printed = @ + 1]
               /\ state' = state
    /\ UNCHANGED <<tokens, program, env, heap, signal, result, trace, calls, files, disk,
                   stopCalled, recording, host>>

\* Run returns, with an error or without one
GoReturn ==
    /\ result = "editing"
    /\ \E g \in 1..Len(goStack), err \in BOOLEAN :
          /\ goStack[g].pc = "running"
          /\ goStack' = [goStack EXCEPT ![g].pc = "returned", ![g].err = err]
    /\ UNCHANGED <<tokens, program, env, heap, state, signal, result, trace, calls, files,
                   disk, stopCalled, recording, host>>

\* the goroutine: e.running = false
GoFinish ==
    /\ result = "editing"
    /\ \E g \in 1..Len(goStack) :
          /\ goStack[g].pc = "returned"
          /\ goStack' = [goStack EXCEPT ![g].pc = "closing"]
          /\ state' = [state EXCEPT !.running = FALSE]
    /\ UNCHANGED <<tokens, program, env, heap, signal, result, trace, calls, files, disk,
                   stopCalled, recording, host>>

\* the goroutine: the closing banner, of the error or of the end, one half
\* of the WriteString at a time
GoFinishBanner ==
    /\ result = "editing"
    /\ \E g \in 1..Len(goStack) :
          /\ goStack[g].pc = "closing"
          /\ IF goStack[g].loaded = <<>>
             THEN /\ goStack' = [goStack EXCEPT ![g].loaded = Load(state.outputText)]
                  /\ state' = state
             ELSE /\ goStack' = [goStack EXCEPT ![g].pc = "last", ![g].loaded = <<>>]
                  /\ state' = [state EXCEPT !.outputText =
                                   Store(goStack[g].loaded, IF goStack[g].err
                                                            THEN "=== Error ==="
                                                            ELSE "=== Done ===")]
    /\ UNCHANGED <<tokens, program, env, heap, signal, result, trace, calls, files, disk,
                   stopCalled, recording, host>>

\* the UI thread, back in its event loop, runs the next queued function,
\* which gives the output area the text of e.outputText: the UI thread has
\* seen the writes made before the function was queued
Draw ==
    /\ result = "editing" /\ state.at = "idle"
    /\ calls # <<>>
    /\ calls' = Tail(calls)
    /\ state' = [state EXCEPT !.synced = Head(calls).running]
    /\ UNCHANGED <<tokens, program, env, heap, goStack, signal, result, trace, files, disk,
                   stopCalled, recording, host>>

InitIde ==
    /\ tokens = <<>>
    /\ program = NewProgram
    /\ env = 1
    /\ heap = <<NewEnvironment>>
    /\ state = NewEditor
    /\ goStack = <<>>
    /\ signal = NoSignal
    /\ result = "editing"
    /\ trace = <<>>
    /\ calls = <<>>
    /\ files = EmptyMap
    /\ disk = EmptyMap
    /\ stopCalled = FALSE
    /\ recording = FALSE
    /\ host = NoHost

NextIde ==
    \/ HandleInput \/ ShowErrors \/ WriteErrors \/ NewInterpreter \/ ResetOutput \/ SetOutput
    \/ StartGoroutine \/ GoStart \/ GoBanner \/ GoQueue \/ GoRun \/ GoOutput \/ GoReturn
    \/ GoFinish \/ GoFinishBanner \/ Draw

SpecIde == InitIde /\ [][NextIde]_vars

\* --------------------------------------------------------------------------
\* Cancellation: programs that stay in a loop, run without history, with the
\* host free to call Stop, and Reset between two runs.  The goroutine that executes Run keeps running, so
\* the interpreter's steps are weakly fair; the host's Stop is not.
\* --------------------------------------------------------------------------
StopSlot ==
    {Assign("x", 1), Assign("x", 5), RemStmt(0), ExitStmt(0, "DO"), ExitStmt(0, "FOR"),
     EndStmt(0), ReturnStmt(0, NoExpr)}
StopPrograms ==
    {<<Assign("x", 0), blk, Assign("y", 5)>> :
        blk \in UNION {Loops(<<b1, b2>>) : b1 \in StopSlot, b2 \in StopSlot}}
      \cup {<<LabelStmt(0, "a"), Assign("x", 1), GotoStmt(0, "a")>>}

InitStop ==
    /\ tokens = <<>>
    /\ program \in {Call("ProgramOf", <<Numbered(p, 0), 1, NewProgram>>) : p \in StopPrograms}
    /\ env = 1
    /\ heap = <<NewEnvironment>>
    /\ state = NewExecutionState
    /\ goStack = <<>>
    /\ signal = NoSignal
    /\ result = "ready"
    /\ trace = <<>>
    /\ calls = <<>>
    /\ files = EmptyMap
    /\ disk = EmptyMap
    /\ stopCalled = FALSE
    /\ recording = FALSE
    /\ host = NoHost

\* Interpreter.Reset, called by the host on an interpreter whose Run has
\* returned: a new environment, a new execution state and an empty table of
\* files, whose handles are dropped without being closed; Run can be called
\* again.  (A Reset while Run executes would replace, from another goroutine,
\* what Run works on: not followed.)
Reset ==
    /\ result \in {"ok", "error"} /\ goStack = <<>>
    /\ env' = 1
    /\ heap' = <<NewEnvironment>>
    /\ state' = NewExecutionState
    /\ files' = EmptyMap
    /\ signal' = NoSignal
    /\ result' = "ready"
    /\ stopCalled' = FALSE
    /\ UNCHANGED <<tokens, program, goStack, trace, calls, disk, host, recording>>

NextStop == Start \/ RunStatement \/ RunReturn \/ RunFail \/ BodyStatement \/ BodyReturn
               \/ Unwind \/ Stop \/ Reset

\* the steps of Run that execute a statement, end a body or pass an error up
RunStep == RunStatement \/ BodyStatement \/ BodyReturn \/ Unwind

\* ENABLED <<RunStep>>_vars, written out: the step is to an interpreter
\* within the values of the model that differs from the one of the state
RunStepEnabled ==
    /\ result = "running"
    /\ IF goStack = <<>>
       THEN /\ signal = NoSignal
            /\ state.Running /\ state.ProgramCounter < Len(program.Statements)
            /\ CanBecome(Call("Dispatch", <<program, Cur, program.Statements[state.ProgramCounter + 1]>>))
       ELSE IF signal # NoSignal THEN CanBecome(Call("Propagate", <<Cur>>))
       ELSE IF Last(goStack).idx <= Len(Last(goStack).body)
       THEN CanBecome(Call("Dispatch", <<program, [Cur EXCEPT !.goStack[Len(goStack)].idx = @ + 1],
                               Last(goStack).body[Last(goStack).idx]>>))
       ELSE CanBecome(Call("BodyEnd", <<program, Cur>>))

\* the goroutine that executes Run is scheduled again and again, the host
\* is free to call Stop or not.  The weak fairness of RunStep is written by
\* its definition, []<>~ENABLED <<A>>_v \/ []<><<A>>_v, with RunStepEnabled
\* for ENABLED
SpecStop ==
    /\ InitStop
    /\ [][NextStop]_vars
    /\ WF_vars(Start \/ RunReturn \/ RunFail)
    /\ ([]<>~RunStepEnabled \/ []<><<RunStep>>_vars)

\* --------------------------------------------------------------------------
\* The lexer (package lexer).  The input is a sequence of bytes: an ASCII
\* character is the string of that character, a byte of 128 or more is
\* written as Go writes it in a quoted string, \x80 to \xff.  position is
\* the index of the current byte (from 1), and the byte past the end of the
\* input is NUL.  A token carries, as history, the position pos of its first
\* byte.
\* --------------------------------------------------------------------------
NUL == ""

\* lexer.New
NewLexer(input) == [input |-> input, position |-> 1, line |-> 1, lineStart |-> TRUE]

Ch(l) == IF l.position > Len(l.input) THEN NUL ELSE l.input[l.position]
peekChar(l) == IF l.position + 1 > Len(l.input) THEN NUL ELSE l.input[l.position + 1]
readChar(l) == [l EXCEPT !.position = @ + 1]

\* the bytes of 128 or more
LowerHex == "0123456789abcdef"
HighByte(b) == "\\x" \o CharAt(LowerHex, (b \div 16) + 1) \o CharAt(LowerHex, (b % 16) + 1)
HighBytes == {HighByte(b) : b \in 128..255}

\* string(ch) of a byte: the UTF-8 encoding of the rune of that number, two
\* bytes from 128 on
ByteString(c) ==
    LET Encoded(b) == <<HighByte(192 + (b \div 64)), HighByte(128 + (b % 64))>>
    IN IF c \in HighBytes THEN Encoded(CHOOSE b \in 128..255 : HighByte(b) = c) ELSE <<c>>

\* isLetter, unicode.IsLetter(rune(ch)): the rune of a byte is a character
\* of Latin-1, whose letters are those of ASCII, the two ordinal indicators
\* and the micro sign (170, 186, 181), and 192 to 255 without the
\* multiplication and the division sign (215, 247)
Letters == "ABCDEFGHIJKLMNOPQRSTUVWXYZabcdefghijklmnopqrstuvwxyz"
LatinLetters == {170, 181, 186} \cup (192..214) \cup (216..246) \cup (248..255)
isLetter(c) ==
    c \in {CharAt(Letters, k) : k \in 1..Len(Letters)} \cup {HighByte(b) : b \in LatinLetters}
isDigit(c) == c \in {"0", "1", "2", "3", "4", "5", "6", "7", "8", "9"}

\* strings.ToUpper of one character of a word
UpperChar(c) == UpperOf[c]

\* the Go string of a sequence of characters
RECURSIVE Join(_)
Join(text) == IF text = <<>> THEN "" ELSE text[1] \o Join(Tail(text))

\* the keyword table of token.go; the token of a keyword is named after it,
\* those of the five type names end in _TYPE
Keywords ==
    {"IF", "THEN", "ELSE", "ELSEIF", "END", "FOR", "TO", "STEP", "NEXT", "WHILE", "WEND",
     "DO", "LOOP", "UNTIL", "SELECT", "CASE", "GOTO", "GOSUB", "RETURN", "EXIT", "ON", "DIM",
     "AS", "SUB", "FUNCTION", "STATIC", "SHARED", "CONST", "TYPE", "LET", "DECLARE", "BYVAL",
     "BYREF", "DATA", "READ", "RESTORE", "PRINT", "INPUT", "OPEN", "CLOSE", "OUTPUT",
     "APPEND", "BINARY", "RANDOM", "ACCESS", "WRITE", "LINE", "USING", "TAB", "SPC",
     "SCREEN", "CLS", "LOCATE", "COLOR", "BEEP", "REM", "OPTION", "BASE", "DEF", "SEG",
     "CALL", "SLEEP", "SYSTEM", "SHELL", "SWAP", "RANDOMIZE", "REDIM", "PRESERVE", "GET",
     "PUT", "SEEK", "PSET", "CIRCLE", "MOD", "AND", "OR", "NOT", "XOR", "EQV", "IMP"}
TypeKeywords == {"INTEGER", "LONG", "SINGLE", "DOUBLE", "STRING"}

\* LookupIdent
LookupIdent(ident) ==
    IF ident \in TypeKeywords THEN ident \o "_TYPE"
    ELSE IF ident \in Keywords THEN ident
    ELSE "IDENT"

Token(type, literal, line, pos) ==
    [Type |-> type, Literal |-> literal, Line |-> line, pos |-> pos]

RECURSIVE skipWhitespace(_)
skipWhitespace(l) ==
    IF Ch(l) \in {" ", "\t"} THEN skipWhitespace(readChar(l)) ELSE l

\* the loop of readComment and of readString: [text, lexer]
RECURSIVE readUntil(_, _, _)
readUntil(l, stops, text) ==
    IF Ch(l) \in stops THEN [text |-> text, lexer |-> l]
    ELSE readUntil(readChar(l), stops, Append(text, Ch(l)))

\* Lexer.readComment: skips the current character, then reads to the end of
\* the line
readComment(l) == readUntil(readChar(l), {"\n", "\r", NUL}, <<>>)

\* Lexer.readString
readString(l) ==
    LET With(r) ==
            [text |-> r.text,
             lexer |-> IF Ch(r.lexer) = "\"" THEN readChar(r.lexer) ELSE r.lexer]
    IN With(readUntil(readChar(l), {"\"", NUL, "\n", "\r"}, <<>>))

\* the loops of readNumber and readIdentifier: [text, lexer]
RECURSIVE readDigits(_, _)
readDigits(l, text) ==
    IF isDigit(Ch(l)) THEN readDigits(readChar(l), Append(text, Ch(l)))
    ELSE [text |-> text, lexer |-> l]

RECURSIVE readWord(_, _)
readWord(l, text) ==
    IF isLetter(Ch(l)) \/ isDigit(Ch(l)) \/ Ch(l) = "_"
    THEN readWord(readChar(l), Append(text, Ch(l)))
    ELSE [text |-> text, lexer |-> l]

\* Lexer.readNumber: [tok, lexer]
readNumber(l) ==
    LET Make(r, isFloat) ==
            [tok |-> Token(IF l.lineStart /\ ~isFloat THEN "LINE_NUMBER"
                           ELSE IF isFloat THEN "FLOAT" ELSE "INTEGER",
                           r.text, l.line, l.position),
             lexer |-> [r.lexer EXCEPT !.lineStart = FALSE]]
        Suffixed(r, isFloat) ==
            IF Ch(r.lexer) \in {"#", "!", "%", "&"}
            THEN Make([text |-> Append(r.text, Ch(r.lexer)), lexer |-> readChar(r.lexer)],
                      isFloat \/ Ch(r.lexer) \in {"#", "!"})
            ELSE Make(r, isFloat)
        Signed(r) ==
            IF Ch(r.lexer) \in {"+", "-"}
            THEN readDigits(readChar(r.lexer), Append(r.text, Ch(r.lexer)))
            ELSE readDigits(r.lexer, r.text)
        Exponent(r, isFloat) ==
            IF Ch(r.lexer) \in {"E", "e", "D", "d"}
            THEN Suffixed(Signed([text |-> Append(r.text, Ch(r.lexer)),
                                  lexer |-> readChar(r.lexer)]), TRUE)
            ELSE Suffixed(r, isFloat)
        Fraction(r) ==
            IF Ch(r.lexer) = "." /\ isDigit(peekChar(r.lexer))
            THEN Exponent(readDigits(readChar(r.lexer), Append(r.text, ".")), TRUE)
            ELSE Exponent(r, FALSE)
    IN Fraction(readDigits(l, <<>>))

\* Lexer.readIdentifier: [tok, lexer].  After the keyword REM it skips the
\* white space and calls readComment, which skips one more character.
\* strings.ToUpper of a word with a byte of 128 or more maps the runes the
\* word holds as UTF-8 and writes U+FFFD for every other such byte: what it
\* returns is not ASCII, and so no keyword.
readIdentifier(l) ==
    LET Upper(text) == [k \in 1..Len(text) |-> UpperChar(text[k])]
        Looked(text) ==
            IF \E k \in 1..Len(text) : text[k] \in HighBytes THEN "IDENT"
            ELSE LookupIdent(Join(Upper(text)))
        Comment(r, c) ==
            [tok |-> Token("REM", r.text \o <<" ">> \o c.text, l.line, l.position),
             lexer |-> [c.lexer EXCEPT !.lineStart = FALSE]]
        Plain(r, type) ==
            [tok |-> Token(type, r.text, l.line, l.position),
             lexer |-> [r.lexer EXCEPT !.lineStart = FALSE]]
        Word(r) ==
            IF Ch(r.lexer) \in {"$", "%", "&", "!", "#"}
            THEN Plain([text |-> Append(r.text, Ch(r.lexer)), lexer |-> readChar(r.lexer)],
                       "IDENT")
            ELSE IF Looked(r.text) = "REM"
            THEN Comment(r, readComment(skipWhitespace(r.lexer)))
            ELSE Plain(r, Looked(r.text))
    IN Word(readWord(l, <<>>))

\* the token types of NextToken's one-character cases
Punctuation(c) ==
    CASE c = "=" -> "EQ"
      [] c = "+" -> "PLUS"
      [] c = "-" -> "MINUS"
      [] c = "*" -> "ASTERISK"
      [] c = "/" -> "SLASH"
      [] c = "\\" -> "BACKSLASH"
      [] c = "^" -> "CARET"
      [] c = "(" -> "LPAREN"
      [] c = ")" -> "RPAREN"
      [] c = "," -> "COMMA"
      [] c = ";" -> "SEMICOLON"
      [] c = ":" -> "COLON"
      [] c = "#" -> "HASH"
      [] c = "$" -> "DOLLAR"
      [] c = "%" -> "PERCENT"
      [] c = "&" -> "AMPERSAND"
      [] c = "!" -> "BANG"
      [] c = "?" -> "PRINT"
      [] c = "<" -> "LT"
      [] c = ">" -> "GT"
      [] OTHER -> "ILLEGAL"

\* Lexer.NextToken: [tok, lexer]
NextToken(l0) ==
    LET One(l, type, text, used) ==
            [tok |-> Token(type, text, l.line, l.position),
             lexer |-> [l EXCEPT !.position = @ + used, !.lineStart = FALSE]]
        Text(l, r, type) == [tok |-> Token(type, r.text, l.line, l.position), lexer |-> r.lexer]
        Newline(l, used) ==
            [tok |-> Token("NEWLINE", <<"\\", "n">>, l.line, l.position),
             lexer |-> [l EXCEPT !.position = @ + used, !.line = @ + 1, !.lineStart = TRUE]]
        At(l) ==
            CASE Ch(l) = "<" /\ peekChar(l) = "=" -> One(l, "LE", <<"<", "=">>, 2)
              [] Ch(l) = "<" /\ peekChar(l) = ">" -> One(l, "NE", <<"<", ">">>, 2)
              [] Ch(l) = ">" /\ peekChar(l) = "=" -> One(l, "GE", <<">", "=">>, 2)
              [] Ch(l) = ">" /\ peekChar(l) = "<" -> One(l, "NE", <<">", "<">>, 2)
              [] Ch(l) = "\"" -> Text(l, readString(l), "STRING")
              [] Ch(l) = "'" -> Text(l, readComment(l), "REM")
              [] Ch(l) = "\n" -> Newline(l, 1)
              [] Ch(l) = "\r" -> Newline(l, IF peekChar(l) = "\n" THEN 2 ELSE 1)
              [] Ch(l) = NUL -> [tok |-> Token("EOF", <<>>, l.line, l.position), lexer |-> l]
              [] isDigit(Ch(l)) -> readNumber(l)
              [] isLetter(Ch(l)) -> readIdentifier(l)
              [] OTHER -> One(l, Punctuation(Ch(l)), ByteString(Ch(l)), 1)
    IN At(skipWhitespace(l0))

\* the sources of the lexer model: two lines, each ended by LF, CR or CRLF,
\* and a last line without terminator.  \xe9 is a letter of Latin-1, and
\* \xc3 \xa9 the same letter in UTF-8: a letter and the copyright sign
LexLines ==
    {<<>>, <<"x">>, <<"x", "=", "1">>, <<"1", "0", " ", "x">>,
     <<"x", "\\xe9", "1">>, <<"\\xc3", "\\xa9", "x">>,
     <<"'">>, <<"'", "c">>, <<"'", " ", "c", "x">>, <<"x", " ", "'", "c">>,
     <<"R", "E", "M">>, <<"R", "E", "M", " ", "c">>, <<"r", "e", "m", " ", " ", "c", "x">>,
     <<"R", "E", "M", "x">>, <<"x", ":", "R", "E", "M", " ", "c">>}
LineEnds == {<<"\n">>, <<"\r">>, <<"\r", "\n">>}
LexInputs ==
    {a \o t1 \o b \o t2 \o c :
        a \in LexLines, b \in LexLines, t1 \in LineEnds, t2 \in LineEnds,
        c \in {<<>>, <<"x">>, <<"'", "c">>, <<"R", "E", "M">>}}

\* Tokenize: tokens holds the lexer and the tokens appended so far
InitLex ==
    /\ tokens \in {[lexer |-> NewLexer(input), stream |-> <<>>] : input \in LexInputs}
    /\ program = NewProgram
    /\ env = 1
    /\ heap = <<NewEnvironment>>
    /\ state = NewExecutionState
    /\ goStack = <<>>
    /\ signal = NoSignal
    /\ result = "lexing"
    /\ trace = <<>>
    /\ calls = <<>>
    /\ files = EmptyMap
    /\ disk = EmptyMap
    /\ stopCalled = FALSE
    /\ recording = FALSE
    /\ host = NoHost

\* one iteration of Tokenize's loop: append the next token
LexToken ==
    /\ result = "lexing"
    /\ IF tokens.stream = <<>> THEN TRUE ELSE Last(tokens.stream).Type # "EOF"
    /\ LET With(r) == tokens' = [lexer |-> r.lexer, stream |-> Append(tokens.stream, r.tok)]
       IN With(NextToken(tokens.lexer))
    /\ UNCHANGED <<program, env, heap, state, goStack, signal, result, trace, calls, files,
                   disk, stopCalled, recording, host>>

\* the token appended was EOF: Tokenize returns
LexDone ==
    /\ result = "lexing"
    /\ tokens.stream # <<>> /\ Last(tokens.stream).Type = "EOF"
    /\ result' = "parsing"
    /\ UNCHANGED <<tokens, program, env, heap, state, goStack, signal, trace, calls, files, disk,
                   stopCalled, recording, host>>

NextLex == LexToken \/ LexDone

SpecLex == InitLex /\ [][NextLex]_vars

\* --------------------------------------------------------------------------
\* Properties
\* --------------------------------------------------------------------------
Finished == result \in {"ok", "error"}

\* the positions of the line numbers that a statement follows on their line
NumberedStatements(stream) ==
    {k \in 1..(Len(stream) - 1) :
        stream[k].Type = "LINE_NUMBER" /\ stream[k + 1].Type \notin {"NEWLINE", "EOF"}}

\* values occurs in items as a block of consecutive elements
OccursIn(values, items) ==
    \E j \in 0..(Len(items) - Len(values)) : SubSeq(items, j + 1, j + Len(values)) = values

\* the statement array holds the marker of the line number at position k of
\* the source, immediately followed by the statement written after it
MarkerThenStatement(k, expected) ==
    \E i \in 1..(Len(program.Statements) - 1) :
        /\ program.Statements[i] =
              LineNumberStmt(tokens.stream[k].Line, Call("Atoi", <<tokens.stream[k].Literal>>))
        /\ program.Statements[i + 1] = expected
        /\ expected.type = "DataStmt" => OccursIn(expected.Values, program.DataItems)

\* C1: once the source is parsed, every line `<line number> <statement>` has
\* put its marker and, right after it, its statement into the statement
\* array (a DATA statement also its items into the DATA list), and a run that
\* executes the marker executes the statement of that line next.
C1_NumberedLineKeepsItsStatement ==
    result # "parsing" =>
        /\ \A k \in NumberedStatements(tokens.stream) :
              MarkerThenStatement(k, Call("parseStatement", <<NewParser(Suffix(tokens.stream, k + 1))>>).stmt)
        /\ \A i \in 1..Len(trace) :
              (/\ trace[i].type = "LineNumberStmt"
               /\ \E k \in NumberedStatements(tokens.stream) :
                        tokens.stream[k].Line = trace[i].Line
               /\ (i < Len(trace) \/ Finished))
                  => /\ i < Len(trace)
                     /\ trace[i + 1].Line = trace[i].Line

\* a parsed source that has a numbered line with a DATA statement on it
C1_Witness ==
    /\ result = "ready"
    /\ \E k \in NumberedStatements(tokens.stream) : tokens.stream[k + 1].Type = "DATA"

\* C2: a SUB or FUNCTION definition reached by the main loop only moves the
\* program counter to the statement right after the definition.
C2_DefinitionSkipsOnlyItself ==
    \A i \in 1..Len(trace) :
        (trace[i].type \in {"SubStatement", "FuncStatement"} /\ trace[i].depth = 0)
            => /\ trace[i].ok
               /\ trace[i].pcAfter = trace[i].pc + 1

\* the main loop has executed a definition that a top-level statement follows
C2_Witness ==
    \E i \in 1..Len(trace) :
        /\ trace[i].type \in {"SubStatement", "FuncStatement"}
        /\ trace[i].depth = 0
        /\ trace[i].pc + 1 < Len(program.Statements)

\* C3: an executed END is the last statement the run executes, at any depth,
\* and the run does not end in an error.
C3_EndIsLast ==
    \A i \in 1..Len(trace) :
        trace[i].type = "EndStmt" => (i = Len(trace) /\ result # "error")

\* an END has executed inside a body
C3_Witness ==
    \E i \in 1..Len(trace) : trace[i].type = "EndStmt" /\ trace[i].depth > 0

\* C4: the statement executed after a GOTO with a resolved target is the
\* marker at the resolved index, executed by the main loop.
C4_GotoJumpsAtOnce ==
    \A i \in 1..Len(trace) :
        (trace[i].type = "GotoStmt" /\ trace[i].ok /\ (i < Len(trace) \/ Finished))
            => /\ i < Len(trace)
               /\ trace[i + 1].depth = 0
               /\ trace[i + 1].pc = Call("ResolveTarget", <<program, trace[i].target>>).idx
               /\ trace[i + 1].type \in {"LabelStmt", "LineNumberStmt"}

\* a GOTO has executed inside a body and another statement after it
C4_Witness ==
    \E i \in 1..(Len(trace) - 1) :
        trace[i].type = "GotoStmt" /\ trace[i].ok /\ trace[i].depth > 0

\* runs in which every statement so far was executed by the main loop and
\* none called a SUB
TopLevelOnly(tr) ==
    \A i \in 1..Len(tr) : tr[i].depth = 0 /\ tr[i].type # "SubCallStmt"

Dispatched(tr, type) == {i \in 1..Len(tr) : tr[i].type = type}
Completed(tr, type) == {i \in Dispatched(tr, type) : tr[i].ok}

\* the GOSUB that the RETURN following position j answers: scanning back,
\* the first GOSUB not answered by a RETURN in between (0 when there is none)
RECURSIVE MatchingGosub(_, _, _)
MatchingGosub(tr, j, open) ==
    IF j = 0 THEN 0
    ELSE IF tr[j].type = "ReturnStmt" /\ tr[j].ok THEN MatchingGosub(tr, j - 1, open + 1)
    ELSE IF tr[j].type = "GosubStmt" /\ tr[j].ok
    THEN IF open = 0 THEN j ELSE MatchingGosub(tr, j - 1, open - 1)
    ELSE MatchingGosub(tr, j - 1, open)

\* C5: with GOSUB and RETURN at top level, the call stack is as deep as the
\* GOSUBs executed minus the RETURNs that found a frame, and every such
\* RETURN resumes right after the latest GOSUB that has not returned yet.
\* (A GOSUB to an undefined target has pushed its frame when it fails.)
C5_GosubReturnLifo ==
    TopLevelOnly(trace) =>
        /\ Len(state.CallStack) =
              Cardinality(Dispatched(trace, "GosubStmt"))
                - Cardinality(Completed(trace, "ReturnStmt"))
        /\ \A j \in Completed(trace, "ReturnStmt") :
              /\ MatchingGosub(trace, j - 1, 0) > 0
              /\ trace[j].pcAfter = trace[MatchingGosub(trace, j - 1, 0)].pc + 1
              /\ j < Len(trace) => trace[j + 1].pc = trace[j].pcAfter

\* two nested top-level GOSUBs, the inner one returned and then the outer one
C5_Witness ==
    /\ TopLevelOnly(trace)
    /\ \E i, j \in Completed(trace, "ReturnStmt") :
          i < j /\ Len(trace[i].stack) = 2 /\ Len(trace[j].stack) = 1

\* C6: when a SUB invocation has completed, the environment is the caller's
\* and the call stack is what it was before the call.
C6_SubRestoresCaller ==
    \A k \in 1..Len(calls) :
        calls[k].kind = "SUB"
            => /\ calls[k].envAfter = calls[k].callerEnv
               /\ calls[k].stackAfter = calls[k].stackBefore

\* a SUB invocation in whose body a RETURN has executed has completed
C6_Witness ==
    /\ \E k \in 1..Len(calls) : calls[k].kind = "SUB" /\ calls[k].how = "end"
    /\ \E i \in 1..Len(trace) :
          trace[i].type = "ReturnStmt" /\ trace[i].ok /\ trace[i].routine = "callSub"

\* C7: a FUNCTION call yields the last value assigned to the function name in
\* its body (the default when there was none), and after the call, failed or
\* not, the environment is the caller's.
C7_FunctionValueIsLastAssigned ==
    \A k \in 1..Len(calls) :
        calls[k].kind = "FUNCTION"
            => /\ calls[k].envAfter = calls[k].callerEnv
               /\ calls[k].how # "error" => calls[k].value = calls[k].assigned

\* a FUNCTION whose body assigned its name and called a SUB has returned
C7_Witness ==
    /\ \E k \in 1..Len(calls) :
          /\ calls[k].kind = "FUNCTION" /\ calls[k].how = "end"
          /\ calls[k].assigned # DefaultValue("UNKNOWN")
    /\ \E i \in 1..Len(trace) :
          trace[i].type = "SubCallStmt" /\ trace[i].routine = "callFunction"

\* C8: RETURN e in the body of a FUNCTION succeeds, consumes no call frame,
\* and the call yields the value of e.
C8_ReturnValueEndsFunction ==
    /\ \A i \in 1..Len(trace) :
          (trace[i].type = "ReturnStmt" /\ trace[i].hasValue
              /\ trace[i].routine = "callFunction")
              => /\ trace[i].ok
                 /\ trace[i].stackAfter = trace[i].stack
                 /\ i < Len(trace) => trace[i + 1].depth < trace[i].depth
    /\ \A k \in 1..Len(calls) :
          (calls[k].kind = "FUNCTION" /\ calls[k].returned # NoValue)
              => calls[k].value = calls[k].returned

\* RETURN e has executed in the body of a FUNCTION called below a GOSUB
C8_Witness ==
    \E i \in 1..Len(trace) :
        /\ trace[i].type = "ReturnStmt" /\ trace[i].hasValue
        /\ trace[i].routine = "callFunction"
        /\ trace[i].stack # <<>>

\* C9: after the host has called Stop, Run returns.
C9_StopEndsRun == stopCalled ~> Finished

\* Stop was called while the body of a DO loop was running
C9_Witness ==
    /\ stopCalled /\ goStack # <<>>
    /\ Last(goStack).fn = "executeDoLoopStatement"

\* C10: a RETURN executed with an empty call stack fails, changes neither
\* the program counter nor the environment nor any stack, and is the last
\* statement of the run, which ends with that error.
C10_ReturnWithoutFrameFails ==
    \A i \in 1..Len(trace) :
        (trace[i].type = "ReturnStmt" /\ trace[i].stack = <<>>)
            => /\ ~trace[i].ok
               /\ trace[i].pcAfter = trace[i].pc
               /\ trace[i].envAfter = trace[i].env
               /\ trace[i].stackAfter = <<>>
               /\ trace[i].stateSame /\ trace[i].heapSame
               /\ i = Len(trace)
               /\ signal = ErrorOf("RETURN without GOSUB")
               /\ result \in {"running", "error"}

\* the run has ended with the error of a RETURN that found no frame
C10_Witness ==
    /\ result = "error"
    /\ trace # <<>>
    /\ Last(trace).type = "ReturnStmt" /\ Last(trace).stack = <<>>

\* --------------------------------------------------------------------------
\* Variables, arrays, constants and DATA
\* --------------------------------------------------------------------------
\* the statement at position i of the history assigns to the scalar name
AssignsScalar(e, name) ==
    \/ e.type = "LetStmt" /\ e.stmt.Name.node = "Identifier" /\ e.stmt.Name.Name = name
    \/ e.type = "ReadStmt" /\ \E k \in DOMAIN e.stmt.Variables :
            e.stmt.Variables[k] = Identifier(name)
    \/ e.type = "SwapStmt" /\ Identifier(name) \in {e.stmt.Var1, e.stmt.Var2}
    \/ e.type = "ForStmt" /\ e.stmt.Variable.Name = name

\* C11: every scalar bound under a name that carries a type suffix holds a
\* value of the kind the suffix names, whatever LET, READ, SWAP or FOR stored.
C11_SuffixedScalarHasItsKind ==
    \A e \in DOMAIN heap : \A n \in DOMAIN heap[e].variables :
        SuffixType(n) # "UNKNOWN"
            => heap[e].variables[n].type = SuffixType(n)

\* an assignment to N% has executed and N% is bound
C11_Witness ==
    /\ \E i \in 1..Len(trace) : trace[i].ok /\ AssignsScalar(trace[i], "N%")
    /\ "N%" \in DOMAIN heap[1].variables

\* C12: every element of every array has the array's element kind.
C12_ArrayElementsHaveArrayKind ==
    \A e \in DOMAIN heap : \A n \in DOMAIN heap[e].arrays :
        \A k \in DOMAIN heap[e].arrays[n].Data :
            heap[e].arrays[n].Data[k].type = heap[e].arrays[n].DataType

\* an element of the INTEGER array A% has been assigned or read into
C12_Witness ==
    /\ "A%" \in DOMAIN heap[1].arrays
    /\ \E i \in 1..Len(trace) :
          /\ trace[i].ok /\ ~trace[i].heapSame
          /\ \/ /\ trace[i].type = "LetStmt"
                /\ trace[i].stmt.Name = CallExpr("A%", <<Lit(1)>>)
             \/ /\ trace[i].type = "ReadStmt"
                /\ trace[i].stmt.Variables = <<CallExpr("A%", <<Lit(0)>>)>>

\* the subscript tuples tried on every array
Tuples == UNION {[1..n -> -1..MaxSub] : n \in 0..MaxRank}

\* the tuple has one subscript per dimension, each within [Lower, Upper]
InBounds(a, t) ==
    /\ Len(t) = Len(a.Dimensions)
    /\ \A i \in 1..Len(t) : a.Dimensions[i].Lower <= t[i] /\ t[i] <= a.Dimensions[i].Upper

\* the row-major position of the first i subscripts of an in-bounds tuple
RECURSIVE RowMajor(_, _, _)
RowMajor(a, t, i) ==
    IF i = 0 THEN 0
    ELSE RowMajor(a, t, i - 1) * (a.Dimensions[i].Upper - a.Dimensions[i].Lower + 1)
            + (t[i] - a.Dimensions[i].Lower)

\* the arrays of the heap
Arrays(h) == UNION {{h[e].arrays[n] : n \in DOMAIN h[e].arrays} : e \in DOMAIN h}

\* an executed assignment to an element of an existing array
ElementStore(e) ==
    /\ e.type = "LetStmt" /\ e.stmt.Name.node = "CallExpr"
    /\ e.stmt.Value.node = "IntegerLiteral"
    /\ Call("GetArray", <<e.heap, e.env, e.stmt.Name.Function>>).ok

\* an executed assignment of an element of an existing array to a scalar
ElementFetch(e) ==
    /\ e.type = "LetStmt" /\ e.stmt.Name.node = "Identifier"
    /\ e.stmt.Value.node = "CallExpr"
    /\ Call("GetArray", <<e.heap, e.env, e.stmt.Value.Function>>).ok

LiteralValues(exprs) == [k \in 1..Len(exprs) |-> exprs[k].Value]

\* C13: on every array GetIndex accepts exactly the in-bounds subscript tuples
\* and sends them one-to-one onto 0..size-1 in row-major order; an element
\* assignment succeeds exactly for in-bounds subscripts, changes that element
\* and no other, and a read of the element yields what was stored.
C13_SubscriptsMapOneToOne ==
    /\ \A a \in Arrays(heap) :
          /\ \A t \in Tuples :
                /\ GetIndex(a, t).ok = InBounds(a, t)
                /\ InBounds(a, t) => GetIndex(a, t).index = RowMajor(a, t, Len(t))
          /\ {GetIndex(a, t).index : t \in {u \in Tuples : InBounds(a, u)}}
                = 0..(Len(a.Data) - 1)
          /\ Cardinality({u \in Tuples : InBounds(a, u)}) = Len(a.Data)
    /\ \A i \in 1..Len(trace) :
          /\ ElementStore(trace[i]) =>
                LET name == trace[i].stmt.Name.Function
                    t == LiteralValues(trace[i].stmt.Name.Arguments)
                    before == Call("GetArray", <<trace[i].heap, trace[i].env, name>>).arr
                    after == Call("GetArray", <<trace[i].heapAfter, trace[i].envAfter, name>>).arr
                IN /\ trace[i].ok = InBounds(before, t)
                   /\ ~trace[i].ok => after = before
                   /\ trace[i].ok =>
                         after = [before EXCEPT !.Data[RowMajor(before, t, Len(t)) + 1] =
                                                    LongValue(trace[i].stmt.Value.Value)]
          /\ ElementFetch(trace[i]) =>
                LET t == LiteralValues(trace[i].stmt.Value.Arguments)
                    a == Call("GetArray", <<trace[i].heap, trace[i].env,
                                  trace[i].stmt.Value.Function>>).arr
                IN /\ trace[i].ok = InBounds(a, t)
                   /\ trace[i].ok =>
                         Call("EnvGet", <<trace[i].heapAfter, trace[i].envAfter,
                                trace[i].stmt.Name.Name>>).val
                            = a.Data[RowMajor(a, t, Len(t)) + 1]

\* an element of a three-dimensional array was stored at a subscript tuple
\* other than the first one and read back
C13_Witness ==
    \E i \in 1..Len(trace) : \E j \in 1..Len(trace) :
        /\ i < j /\ ElementStore(trace[i]) /\ trace[i].ok
        /\ trace[i].stmt.Name.Arguments = Lits(<<1, 0, 2>>)
        /\ ElementFetch(trace[j]) /\ trace[j].ok
        /\ trace[j].stmt.Value.Arguments = Lits(<<1, 0, 2>>)
        /\ Call("EnvGet", <<heap, env, "X">>).val = LongValue(5)

\* C14: REDIM PRESERVE of an existing array keeps every element whose
\* subscripts lie within the old and the new bounds; REDIM without PRESERVE
\* leaves every element at the default of the element kind.
C14_RedimKeepsSharedElements ==
    \A i \in 1..Len(trace) :
        (trace[i].type = "RedimStmt" /\ trace[i].ok) =>
            \A k \in DOMAIN trace[i].stmt.Variables :
                LET name == trace[i].stmt.Variables[k].Name
                    old == Call("GetArray", <<trace[i].heap, trace[i].env, name>>)
                    new == Call("GetArray", <<trace[i].heapAfter, trace[i].envAfter, name>>).arr
                IN /\ (trace[i].stmt.Preserve /\ old.ok) =>
                        \A t \in Tuples :
                            (InBounds(old.arr, t) /\ InBounds(new, t))
                                => new.Data[RowMajor(new, t, Len(t)) + 1]
                                      = old.arr.Data[RowMajor(old.arr, t, Len(t)) + 1]
                   /\ ~trace[i].stmt.Preserve =>
                        \A d \in DOMAIN new.Data : new.Data[d] = DefaultValue(new.DataType)

\* REDIM PRESERVE has executed on a two-dimensional array that held a stored
\* value within the new bounds
C14_Witness ==
    \E i \in 1..Len(trace) :
        /\ trace[i].type = "RedimStmt" /\ trace[i].ok /\ trace[i].stmt.Preserve
        /\ Len(trace[i].stmt.Variables[1].Dimensions) = 2
        /\ Call("GetArray", <<trace[i].heap, trace[i].env, "B">>).ok
        /\ Len(Call("GetArray", <<trace[i].heap, trace[i].env, "B">>).arr.Dimensions) = 2
        /\ LongValue(5) \in {Call("GetArray", <<trace[i].heap, trace[i].env, "B">>).arr.Data[d] :
                d \in DOMAIN Call("GetArray", <<trace[i].heap, trace[i].env, "B">>).arr.Data}

\* the value of the expression x in the situation that the statement of
\* entry e was dispatched in
ValueAt(e, x) ==
    Call("evaluate", <<program,
             [Cur EXCEPT !.heap = e.heap, !.env = e.env, !.files = e.files, !.disk = e.disk,
                         !.signal = NoSignal, !.recording = FALSE],
             x>>).val

\* an executed assignment of the scalar name to another scalar
ScalarFetch(e, name) ==
    /\ e.type = "LetStmt" /\ e.ok /\ e.stmt.Name.node = "Identifier"
    /\ e.stmt.Value = Identifier(name)

\* the value the assignment at entry e left in its target
FetchedValue(e) == Call("EnvGet", <<e.heapAfter, e.envAfter, e.stmt.Name.Name>>).val

\* C15: once CONST c = v has executed at module level, every later
\* evaluation of c, in the module and in routine bodies, yields v.
C15_ConstantKeepsItsValue ==
    \A j \in 1..Len(trace) : \A i \in 1..Len(trace) :
        ( /\ j < i
          /\ trace[j].type = "ConstStmt" /\ trace[j].ok /\ trace[j].depth = 0
          /\ ScalarFetch(trace[i], trace[j].stmt.Name) )
            => FetchedValue(trace[i]) = ValueAt(trace[j], trace[j].stmt.Value)

\* after CONST C, a routine body assigned C and then read it
C15_Witness ==
    \E j \in 1..Len(trace) : \E a \in 1..Len(trace) : \E i \in 1..Len(trace) :
        /\ j < a /\ a < i
        /\ trace[j].type = "ConstStmt" /\ trace[j].ok /\ trace[j].stmt.Name = "C"
        /\ trace[a].ok /\ AssignsScalar(trace[a], "C") /\ trace[a].routine # ""
        /\ ScalarFetch(trace[i], "C") /\ trace[i].routine # ""

\* the name is bound in the innermost scope at entry e, which is a routine's
LocalTo(e, name) == e.routine # "" /\ name \in DOMAIN e.heap[e.env].variables

\* entry a is an assignment X = literal in a routine body to a name that is
\* not local there, entry i reads X where it is not local, and nothing
\* between them assigns X
SharedWriteThenRead(a, i, name) ==
    /\ a < i
    /\ trace[a].type = "LetStmt" /\ trace[a].ok /\ trace[a].routine # ""
    /\ trace[a].stmt.Name = Identifier(name)
    /\ trace[a].stmt.Value.node = "IntegerLiteral"
    /\ ~LocalTo(trace[a], name)
    /\ ScalarFetch(trace[i], name) /\ ~LocalTo(trace[i], name)
    /\ \A k \in (a + 1)..(i - 1) : ~AssignsScalar(trace[k], name)

\* DIM SHARED of the scalar name has executed at module level by entry a
DeclaredShared(a, name) ==
    \E d \in 1..(a - 1) :
        /\ trace[d].type = "DimStmt" /\ trace[d].ok /\ trace[d].depth = 0
        /\ trace[d].stmt.Shared
        /\ \E k \in DOMAIN trace[d].stmt.Variables :
              /\ trace[d].stmt.Variables[k].Name = name
              /\ Len(trace[d].stmt.Variables[k].Dimensions) = 0

\* C16: a value assigned in a routine body to a scalar declared DIM SHARED
\* is the value the module level and later routine activations read.
C16_SharedScalarIsModuleWide ==
    \A a \in 1..Len(trace) : \A i \in 1..Len(trace) :
        (DeclaredShared(a, "X") /\ SharedWriteThenRead(a, i, "X"))
            => FetchedValue(trace[i]) = LongValue(trace[a].stmt.Value.Value)

\* after DIM SHARED X a SUB assigned X and returned, and the module read X
C16_Witness ==
    /\ \E k \in 1..Len(calls) : calls[k].kind = "SUB" /\ calls[k].name = "S"
    /\ \E a \in 1..Len(trace) : \E i \in 1..Len(trace) :
          /\ DeclaredShared(a, "X") /\ SharedWriteThenRead(a, i, "X")
          /\ trace[i].routine = ""

\* entry c calls one of the routines named, and n is the next statement
\* executed by the caller of c (the first later entry that is not deeper)
CallThenNext(c, n, routines) ==
    /\ c < n
    /\ \/ trace[c].type = "SubCallStmt" /\ trace[c].stmt.Name \in routines
       \/ /\ trace[c].type = "LetStmt" /\ trace[c].stmt.Value.node = "CallExpr"
          /\ trace[c].stmt.Value.Function \in routines
    /\ trace[n].depth <= trace[c].depth
    /\ \A k \in (c + 1)..(n - 1) : trace[k].depth > trace[c].depth

\* C17: a routine that assigns a non-shared scalar name in its body, or
\* binds it as a parameter, leaves the caller's binding of that name alone:
\* after the call the caller reads the value it had before the call.
C17_RoutineAssignmentIsLocal ==
    \A c \in 1..Len(trace) : \A n \in 1..Len(trace) :
        ( /\ CallThenNext(c, n, {"S", "P", "F"})
          /\ ~DeclaredShared(c, "X")
          /\ Call("EnvGet", <<trace[c].heap, trace[c].env, "X">>).ok )
            => Call("EnvGet", <<trace[n].heap, trace[n].env, "X">>)
                  = Call("EnvGet", <<trace[c].heap, trace[c].env, "X">>)

\* a SUB that assigns X and a routine with the parameter X have been called
\* where X was bound and not shared, and the caller went on
C17_Witness ==
    /\ \E c \in 1..Len(trace) : \E n \in 1..Len(trace) :
          /\ CallThenNext(c, n, {"S"}) /\ ~DeclaredShared(c, "X")
          /\ Call("EnvGet", <<trace[c].heap, trace[c].env, "X">>).ok
          /\ \E k \in (c + 1)..(n - 1) : trace[k].ok /\ AssignsScalar(trace[k], "X")
    /\ \E c \in 1..Len(trace) : \E n \in 1..Len(trace) :
          CallThenNext(c, n, {"P", "F"}) /\ ~DeclaredShared(c, "X")

\* an executed assignment of a literal to a scalar name under which an array
\* exists
ScalarStoreBesideArray(e) ==
    /\ e.type = "LetStmt" /\ e.stmt.Name.node = "Identifier"
    /\ e.stmt.Value.node = "IntegerLiteral"
    /\ Call("GetArray", <<e.heap, e.env, e.stmt.Name.Name>>).ok

\* C18: when an array named x exists, x = v succeeds, binds the scalar x and
\* leaves the array alone, and x(i) = v leaves the scalar x alone.
C18_ScalarAndArrayAreDisjoint ==
    \A i \in 1..Len(trace) :
        /\ ScalarStoreBesideArray(trace[i]) =>
              /\ trace[i].ok
              /\ FetchedValue(trace[i]) = LongValue(trace[i].stmt.Value.Value)
              /\ Call("GetArray", <<trace[i].heapAfter, trace[i].envAfter, trace[i].stmt.Name.Name>>)
                    = Call("GetArray", <<trace[i].heap, trace[i].env, trace[i].stmt.Name.Name>>)
        /\ ElementStore(trace[i]) =>
              Call("EnvGet", <<trace[i].heapAfter, trace[i].envAfter, trace[i].stmt.Name.Function>>)
                 = Call("EnvGet", <<trace[i].heap, trace[i].env, trace[i].stmt.Name.Function>>)

\* with the array X declared, X = 1 and X(1) = 5 have both been executed
C18_Witness ==
    /\ \E i \in 1..Len(trace) :
          ScalarStoreBesideArray(trace[i]) /\ trace[i].stmt.Name.Name = "X"
    /\ \E i \in 1..Len(trace) :
          /\ ElementStore(trace[i]) /\ trace[i].ok
          /\ trace[i].stmt.Name.Function = "X"
          /\ Call("EnvGet", <<trace[i].heap, trace[i].env, "X">>).ok

\* the value lists of the DATA statements of a token stream, concatenated in
\* source order: the numerals between each DATA keyword and the end of its line
RECURSIVE SourceData(_, _, _)
SourceData(stream, k, inData) ==
    IF k > Len(stream) THEN <<>>
    ELSE IF stream[k].Type = "DATA" THEN SourceData(stream, k + 1, TRUE)
    ELSE IF stream[k].Type \in {"NEWLINE", "EOF"} THEN SourceData(stream, k + 1, FALSE)
    ELSE IF inData /\ stream[k].Type = "INTEGER"
    THEN <<IntegerLiteral(Call("Atoi", <<stream[k].Literal>>))>> \o SourceData(stream, k + 1, TRUE)
    ELSE SourceData(stream, k + 1, inData)

\* C19: after parsing, the DATA-items list of the program is the
\* concatenation, in source order, of the value lists of every DATA
\* statement of the source, wherever it is written.
C19_DataItemsFollowSource ==
    (tokens # <<>> /\ result # "parsing")
        => program.DataItems = SourceData(tokens.stream, 1, FALSE)

\* a source with a DATA statement at top level and one in a SUB body has
\* been parsed
C19_Witness ==
    /\ tokens # <<>> /\ result # "parsing"
    /\ tokens.stream \in SubSources
    /\ Len(SourceData(tokens.stream, 1, FALSE)) = 4

Min(a, b) == IF a < b THEN a ELSE b

\* a constant of that name is defined in scope e or in a scope around it
RECURSIVE ConstantVisible(_, _, _)
ConstantVisible(h, e, name) ==
    \/ Call("ToUpper", <<name>>) \in DOMAIN h[e].constants
    \/ h[e].parent # Nil /\ ConstantVisible(h, h[e].parent, name)

\* the target denotes a variable: a scalar name that is not a constant, or an
\* element of an existing array with subscripts inside its bounds
Assignable(h, e, target) ==
    \/ target.node = "Identifier" /\ ~ConstantVisible(h, e, target.Name)
    \/ /\ target.node = "CallExpr"
       /\ Call("GetArray", <<h, e, target.Function>>).ok
       /\ InBounds(Call("GetArray", <<h, e, target.Function>>).arr, LiteralValues(target.Arguments))

\* the value the variable that the target denotes holds in heap h
TargetValue(h, e, target) ==
    IF target.node = "Identifier" THEN Call("EnvGet", <<h, e, target.Name>>).val
    ELSE ArrayGet(Call("GetArray", <<h, e, target.Function>>).arr, LiteralValues(target.Arguments)).val

\* C20: a READ with k targets dispatched with the DATA pointer at p, with n
\* DATA items in the program, serves its first min(k, n - p) targets: target j
\* receives the value of item p + j - 1 (the last of several targets naming one
\* variable wins) and the pointer ends at p + min(k, n - p).  The READ succeeds
\* exactly when k <= n - p; otherwise the target reached with the pointer at n
\* fails with "out of DATA" and the pointer stays at n.  In every state
\* 0 <= pointer <= n.
C20_ReadConsumesInOrder ==
    /\ 0 <= state.DataPointer /\ state.DataPointer <= Len(program.DataItems)
    /\ \A i \in Dispatched(trace, "ReadStmt") :
          LET e == trace[i]
              targets == e.stmt.Variables
              p == e.dataPointer
              n == Len(program.DataItems)
              served == Min(Len(targets), n - p)
          IN (\A j \in 1..Len(targets) : Assignable(e.heap, e.env, targets[j])) =>
                /\ e.ok <=> Len(targets) <= n - p
                /\ ~e.ok => e.error = "out of DATA"
                /\ e.dataPointerAfter = p + served
                /\ \A j \in 1..served :
                      (\A j2 \in (j + 1)..served : targets[j2] # targets[j]) =>
                          TargetValue(e.heapAfter, e.envAfter, targets[j])
                              = ValueAt(e, program.DataItems[p + j])

\* a READ of a scalar, an array element and a scalar has consumed the three
\* DATA items of the program, and the next READ has failed at the end of DATA
C20_Witness ==
    \E i \in Dispatched(trace, "ReadStmt") : \E j \in Dispatched(trace, "ReadStmt") :
        /\ i < j
        /\ trace[i].ok /\ Len(trace[i].stmt.Variables) = 3
        /\ trace[i].dataPointer = 0 /\ trace[i].dataPointerAfter = 3
        /\ ~trace[j].ok /\ trace[j].dataPointer = 3 /\ trace[j].dataPointerAfter = 3
        /\ Call("EnvGet", <<heap, env, "X">>).val = LongValue(3)

\* the number of DATA items of the statements stmts[1..idx]
RECURSIVE ItemsBefore(_, _)
ItemsBefore(stmts, idx) ==
    IF idx = 0 THEN 0
    ELSE ItemsBefore(stmts, idx - 1)
            + (IF stmts[idx].type = "DataStmt" THEN Len(stmts[idx].Values) ELSE 0)

\* the 0-based index of the statement that a RESTORE target names: a defined
\* line number or a defined label (-1 when it names neither)
RestoreTarget(prog, target) ==
    IF Call("parseLineNumber", <<target>>).ok /\ Call("parseLineNumber", <<target>>).n \in DOMAIN prog.LineNumbers
    THEN prog.LineNumbers[Call("parseLineNumber", <<target>>).n]
    ELSE IF Call("ToUpper", <<target>>) \in DOMAIN prog.Labels THEN prog.Labels[Call("ToUpper", <<target>>)]
    ELSE -1

\* C21: RESTORE without a target succeeds and leaves the DATA pointer at 0;
\* RESTORE with a target that is a defined line number or a defined label
\* succeeds and leaves the pointer at the number of DATA items of the
\* statements before the target statement.
C21_RestoreSetsPointer ==
    \A i \in Dispatched(trace, "RestoreStmt") :
        LET e == trace[i]
            idx == RestoreTarget(program, e.stmt.Target)
        IN /\ e.stmt.Target = "" => e.ok /\ e.dataPointerAfter = 0
           /\ (e.stmt.Target # "" /\ idx >= 0) =>
                 e.ok /\ e.dataPointerAfter = ItemsBefore(program.Statements, idx)

\* after a READ, RESTORE with the defined label b has been dispatched
C21_Witness ==
    \E i \in Dispatched(trace, "RestoreStmt") :
        /\ trace[i].stmt.Target = "b" /\ RestoreTarget(program, "b") >= 0
        /\ trace[i].dataPointer > 0

\* an executed OPEN whose file number is in the file-handle table
OpenInUse(e) ==
    e.type = "OpenStmt" /\ e.stmt.FileNum.Value \in DOMAIN e.files

\* an executed OPEN whose file number is free and whose file can be opened
OpenFree(e) ==
    /\ e.type = "OpenStmt" /\ e.stmt.FileNum.Value \notin DOMAIN e.files
    /\ e.stmt.Mode = "INPUT" => e.stmt.Filename.Value \in DOMAIN e.disk

\* C22: an OPEN with a file number that is in the file-handle table fails and
\* leaves the table and every file as they were; an OPEN with a file number
\* that is not in the table, after a CLOSE of that number as at any other
\* time, succeeds and enters the handle under that number.
C22_OpenInUseFails ==
    \A i \in Dispatched(trace, "OpenStmt") :
        LET e == trace[i]
            n == e.stmt.FileNum.Value
        IN /\ OpenInUse(e) =>
                /\ ~e.ok /\ e.error = Call("FileError", <<n, " already open">>).what
                /\ e.filesAfter = e.files /\ e.diskAfter = e.disk
           /\ OpenFree(e) =>
                /\ e.ok /\ n \in DOMAIN e.filesAfter
                /\ e.filesAfter[n].Name = e.stmt.Filename.Value
                /\ e.filesAfter[n].Mode = e.stmt.Mode
                /\ \A m \in DOMAIN e.files : e.filesAfter[m] = e.files[m]

\* OPEN "g" FOR OUTPUT AS #1 has failed while #1 was open on "f", with "g"
\* not created
C22_Witness ==
    \E i \in Dispatched(trace, "OpenStmt") :
        /\ OpenInUse(trace[i]) /\ trace[i].stmt.Filename.Value = G
        /\ trace[i].stmt.Mode = "OUTPUT" /\ G \notin DOMAIN disk
        /\ 1 \in DOMAIN files /\ files[1].Name = F

\* C23: when Run has returned, the file-handle table is empty.
C23_NoFileOpenAfterRun ==
    result \in {"ok", "error"} => DOMAIN files = {}

\* Run has returned after an OPEN that no CLOSE followed
C23_Witness ==
    /\ result = "ok"
    /\ Dispatched(trace, "OpenStmt") # {} /\ Dispatched(trace, "CloseStmt") = {}

\* the width in bytes of a numeric kind
Width(kind) ==
    CASE kind = "INTEGER" -> 2
      [] kind = "LONG" -> 4
      [] kind = "SINGLE" -> 4
      [] kind = "DOUBLE" -> 8

\* an executed GET or PUT of a variable whose suffix names a numeric kind
NumericTransfer(e, type) ==
    /\ e.type = type /\ e.ok /\ e.stmt.Variable.node = "Identifier"
    /\ SuffixType(e.stmt.Variable.Name) \in {"INTEGER", "LONG", "SINGLE", "DOUBLE"}

\* the byte offset that the GET, PUT or SEEK of entry e addresses: its position
\* argument taken 1-based, in records on a RANDOM file and in bytes otherwise;
\* without a position, the offset the file is at
Addressed(e) ==
    LET fh == e.files[e.stmt.FileNum.Value]
    IN IF e.stmt.Position = NoExpr THEN fh.File.offset
       ELSE IF fh.Mode = "RANDOM" THEN (e.stmt.Position.Value - 1) * fh.RecLen
       ELSE e.stmt.Position.Value - 1

\* the bytes of the file of entry e, before and after the statement
ContentBefore(e) == e.disk[e.files[e.stmt.FileNum.Value].File.path]
ContentAfter(e) == e.diskAfter[e.files[e.stmt.FileNum.Value].File.path]

\* C24: a PUT of a variable whose suffix names the numeric kind K changes
\* exactly the Width(K) bytes at the addressed offset (the file grows to hold
\* them), and a GET that follows at the same offset into the same variable
\* yields the value that was PUT.
C24_PutGetRoundTrip ==
    \A i \in 1..Len(trace) :
        NumericTransfer(trace[i], "PutStmt") =>
            LET e == trace[i]
                at == Addressed(e)
                w == Width(SuffixType(e.stmt.Variable.Name))
                put == Call("EnvGet", <<e.heapAfter, e.envAfter, e.stmt.Variable.Name>>).val
            IN /\ Len(ContentAfter(e)) = Max(Len(ContentBefore(e)), at + w)
               /\ \A k \in 1..Len(ContentBefore(e)) :
                     (k <= at \/ k > at + w) => ContentAfter(e)[k] = ContentBefore(e)[k]
               /\ e.filesAfter[e.stmt.FileNum.Value].File.offset = at + w
               /\ ( /\ i < Len(trace) /\ NumericTransfer(trace[i + 1], "GetStmt")
                    /\ trace[i + 1].stmt.Variable = e.stmt.Variable
                    /\ trace[i + 1].stmt.FileNum = e.stmt.FileNum
                    /\ Addressed(trace[i + 1]) = at )
                    => Call("EnvGet", <<trace[i + 1].heapAfter, trace[i + 1].envAfter,
                              e.stmt.Variable.Name>>).val.val = put.val

\* N% = 300 has been PUT and read back with GET at the same position
C24_Witness ==
    \E i \in 1..Len(trace) :
        /\ NumericTransfer(trace[i], "PutStmt") /\ trace[i].stmt.Variable.Name = "N%"
        /\ Call("EnvGet", <<trace[i].heap, trace[i].env, "N%">>).ok
        /\ Call("EnvGet", <<trace[i].heap, trace[i].env, "N%">>).val.val = 300
        /\ i < Len(trace) /\ NumericTransfer(trace[i + 1], "GetStmt")
        /\ Addressed(trace[i + 1]) = Addressed(trace[i])

\* the record length that the source line of an OPEN asks for: the r of
\* LEN = r when the line has one, 128 otherwise
RECURSIVE SourceLen(_, _, _)
SourceLen(stream, line, k) ==
    IF k + 2 > Len(stream) THEN 128
    ELSE IF /\ stream[k].Line = line /\ stream[k].Literal = "LEN"
            /\ stream[k + 1].Type = "EQ" /\ stream[k + 2].Type = "INTEGER"
    THEN Call("Atoi", <<stream[k + 2].Literal>>)
    ELSE SourceLen(stream, line, k + 1)

\* C25: a file opened FOR RANDOM has the record length r that LEN = r names
\* in the OPEN statement (128 without LEN), and a SEEK to the 1-based
\* position p leaves the file at byte offset (p - 1) * r on a RANDOM file and
\* at p - 1 on a BINARY file.
C25_RecordAddressing ==
    /\ \A i \in Completed(trace, "OpenStmt") :
          trace[i].stmt.Mode = "RANDOM" =>
              trace[i].filesAfter[trace[i].stmt.FileNum.Value].RecLen
                  = SourceLen(tokens.stream, trace[i].Line, 1)
    /\ \A j \in Completed(trace, "SeekStmt") : \A i \in Completed(trace, "OpenStmt") :
          trace[i].stmt.FileNum = trace[j].stmt.FileNum =>
              trace[j].filesAfter[trace[j].stmt.FileNum.Value].File.offset
                  = IF trace[i].stmt.Mode = "RANDOM"
                    THEN (trace[j].stmt.Position.Value - 1)
                            * SourceLen(tokens.stream, trace[i].Line, 1)
                    ELSE trace[j].stmt.Position.Value - 1

\* OPEN "f" FOR RANDOM AS #1 LEN = 2 and then SEEK #1, 2 have executed
C25_Witness ==
    \E i \in Completed(trace, "OpenStmt") : \E j \in Completed(trace, "SeekStmt") :
        /\ i < j /\ trace[i].stmt.Mode = "RANDOM"
        /\ SourceLen(tokens.stream, trace[i].Line, 1) = 2
        /\ trace[j].stmt.Position.Value = 2
\* entries i-4 .. i of the history are the text round trip on one file and one
\* file number: OPEN FOR OUTPUT, PRINT # of one variable, CLOSE, OPEN FOR
\* INPUT, LINE INPUT #; all of them succeeded
TextRoundTrip(i) ==
    /\ i > 4 /\ i <= Len(trace)
    /\ \A k \in (i - 4)..i : trace[k].ok
    /\ trace[i - 4].type = "OpenStmt" /\ trace[i - 4].stmt.Mode = "OUTPUT"
    /\ trace[i - 3].type = "PrintFileStmt" /\ ~trace[i - 3].stmt.NoNewline
    /\ Len(trace[i - 3].stmt.Items) = 1
    /\ trace[i - 3].stmt.Items[1].Expression.node = "Identifier"
    /\ trace[i - 3].stmt.Items[1].Separator = ""
    /\ trace[i - 2].type = "CloseStmt" /\ trace[i - 2].stmt.FileNums = <<trace[i - 4].stmt.FileNum>>
    /\ trace[i - 1].type = "OpenStmt" /\ trace[i - 1].stmt.Mode = "INPUT"
    /\ trace[i - 1].stmt.Filename = trace[i - 4].stmt.Filename
    /\ trace[i].type = "LineInputFileStmt"
    /\ \A k \in {i - 3, i - 1, i} : trace[k].stmt.FileNum = trace[i - 4].stmt.FileNum

\* the string that the PRINT # of the round trip ending at i wrote, and the
\* string its LINE INPUT # stored
TextWritten(i) ==
    Call("EnvGet", <<trace[i - 3].heap, trace[i - 3].env, trace[i - 3].stmt.Items[1].Expression.Name>>).val
TextRead(i) == Call("EnvGet", <<trace[i].heapAfter, trace[i].envAfter, trace[i].stmt.Variable.Name>>).val

Bytes(s) == {s[k] : k \in 1..Len(s)}

\* C26: after a string without a newline is written with PRINT # to a file
\* opened FOR OUTPUT, and the file is closed and reopened FOR INPUT,
\* LINE INPUT # yields the same string, byte for byte.
C26_TextRoundTrip ==
    \A i \in 1..Len(trace) :
        (TextRoundTrip(i) /\ TextWritten(i).type = "STRING" /\ LF \notin Bytes(TextWritten(i).val))
            => TextRead(i) = TextWritten(i)

\* the string "a" followed by a carriage return has made the round trip
C26_Witness ==
    \E i \in 1..Len(trace) :
        TextRoundTrip(i) /\ TextWritten(i) = StringValue(<<97, CR>>)

\* entry e is an assignment of a quotient: x = l / r, x = l \ r or x = l MOD r
Division(e) ==
    /\ e.type = "LetStmt" /\ e.stmt.Value.node = "BinaryExpr"
    /\ e.stmt.Value.Operator \in {"/", "\\", "MOD"}

\* the value of the divisor of the division of entry e
Divisor(e) == Call("ToFloat", <<ValueAt(e, e.stmt.Value.Right)>>)

\* the divisor is zero, or the operator divides integers and the divisor
\* becomes zero when it is converted to an integer
ZeroDivisor(e) ==
    \/ Divisor(e).n = 0
    \/ e.stmt.Value.Operator \in {"\\", "MOD"} /\ Trunc(Divisor(e)) = 0

\* C27: every /, \ and MOD whose divisor is zero (for \ and MOD also a
\* divisor that becomes zero when converted to an integer) makes its statement
\* return the error "division by zero", and no division ends the run with a
\* crash.
C27_DivisionByZeroIsAnError ==
    /\ result # "crashed"
    /\ \A i \in 1..Len(trace) :
          (Division(trace[i]) /\ ZeroDivisor(trace[i]))
              => (~trace[i].ok /\ trace[i].error = "division by zero")

\* 7 \ 0.5 has been executed
C27_Witness ==
    \E i \in 1..Len(trace) :
        /\ Division(trace[i]) /\ trace[i].stmt.Value.Operator = "\\"
        /\ Divisor(trace[i]) = Float(1, 2)
        /\ result \notin {"ready", "running"}

\* entry e is a FOR that started, over a variable, with a body of plain
\* statements (assignments and remarks)
SimpleFor(e) ==
    /\ e.type = "ForStmt" /\ e.ok /\ Assignable(e.heap, e.env, e.stmt.Variable)
    /\ Len(e.stmt.Body) > 0
    /\ \A k \in 1..Len(e.stmt.Body) : e.stmt.Body[k].type \in {"LetStmt", "RemStmt"}

\* the body of the FOR assigns the loop variable
BodyAssigns(stmt) ==
    \E k \in 1..Len(stmt.Body) :
        /\ stmt.Body[k].type = "LetStmt"
        /\ Call("ToUpper", <<stmt.Body[k].Name.Name>>) = Call("ToUpper", <<stmt.Variable.Name>>)

\* entries i+1 .. j of the history are statements of the body of the FOR of
\* entry i (the body is plain, so they are one level below it)
InLoop(i, j) == \A k \in (i + 1)..j : trace[k].depth = trace[i].depth + 1

\* the start, the limit and the step of the FOR of entry e, as numbers, in
\* the situation the FOR was dispatched in
StartOf(e) == Call("ToFloat", <<ValueAt(e, e.stmt.Start)>>)
LimitOf(e) == Call("ToFloat", <<ValueAt(e, e.stmt.End)>>)
StepOf(e) ==
    IF e.stmt.Step = NoExpr THEN Float(1, 1)
    ELSE Call("ToFloat", <<ValueAt(e, e.stmt.Step)>>)

\* the loop variable of the FOR of entry i before and after entry j, and
\* when the next statement after entry j is dispatched (or the run is over)
LoopVarBefore(i, j) ==
    Call("ToFloat", <<Call("EnvGet", <<trace[j].heap, trace[j].env, trace[i].stmt.Variable.Name>>).val>>)
LoopVarAfter(i, j) ==
    Call("ToFloat", <<Call("EnvGet", <<trace[j].heapAfter, trace[j].envAfter, trace[i].stmt.Variable.Name>>).val>>)
LoopVarNext(i, j) ==
    IF j < Len(trace) THEN LoopVarBefore(i, j + 1)
    ELSE Call("ToFloat", <<Call("EnvGet", <<heap, env, trace[i].stmt.Variable.Name>>).val>>)

\* the next statement after entry j has been dispatched, or the run is over
Continued(j) == j < Len(trace) \/ result = "ok"

\* C28: when the last statement of the body of a FOR has run, the loop
\* variable becomes the value it holds at that moment plus the step, also
\* when the body has assigned the loop variable.
C28_IncrementFromCurrentValue ==
    \A i \in 1..Len(trace) : \A j \in (i + 1)..Len(trace) :
        ( /\ SimpleFor(trace[i]) /\ InLoop(i, j) /\ trace[j].ok
          /\ (j - i) % Len(trace[i].stmt.Body) = 0 /\ Continued(j) )
            => LoopVarNext(i, j) = Call("Sum", <<LoopVarAfter(i, j), StepOf(trace[i])>>)

\* the body of FOR x = 1 TO 3 has assigned 5 to x, and the loop has gone on
C28_Witness ==
    \E i \in 1..Len(trace) : \E j \in (i + 1)..Len(trace) :
        /\ SimpleFor(trace[i]) /\ InLoop(i, j) /\ trace[j].ok /\ Continued(j)
        /\ (j - i) % Len(trace[i].stmt.Body) = 0
        /\ BodyAssigns(trace[i].stmt)
        /\ LoopVarBefore(i, j) # LoopVarAfter(i, j)
        /\ LoopVarAfter(i, j) = Float(5, 1)

\* the value v is past the limit b for the step s
Past(v, b, s) == IF s.n > 0 THEN Call("Less", <<b, v>>) ELSE Call("Less", <<v, b>>)

\* how many of the values a, a+s, a+2s, ... come before the first one past b
RECURSIVE Iterations(_, _, _)
Iterations(a, b, s) == IF Past(a, b, s) THEN 0 ELSE 1 + Iterations(Call("Sum", <<a, s>>), b, s)

\* a + k*s
Nth(a, s, k) == Call("Sum", <<a, Call("Product", <<Float(k, 1), s>>)>>)

\* how many statements of its body the FOR of entry i has executed
BodyRun(i) == Cardinality({j \in (i + 1)..Len(trace) : InLoop(i, j)})

\* the FOR of entry i is over: a statement after it has been dispatched, or
\* the run has ended without an error
Over(i) == i + BodyRun(i) < Len(trace) \/ result = "ok"

\* C29: a FOR from a to b with step s # 0 (1 when there is no STEP), whose
\* body does not assign the loop variable, executes its body once for each of
\* the values a, a+s, a+2s, ... that is not past b, in that order and with the
\* loop variable holding that value, not at all when a is past b, and ends
\* with the loop variable holding the first value past b; b and s are the
\* values the limit and the step had when the FOR started.
C29_ForIterations ==
    \A i \in 1..Len(trace) :
        (SimpleFor(trace[i]) /\ ~BodyAssigns(trace[i].stmt) /\ StepOf(trace[i]).n # 0) =>
            LET n == Len(trace[i].stmt.Body)
                a == StartOf(trace[i])
                s == StepOf(trace[i])
                c == Iterations(a, LimitOf(trace[i]), s)
            IN /\ \A j \in (i + 1)..Len(trace) :
                     InLoop(i, j) => /\ j - i <= n * c
                                     /\ trace[j].stmt = trace[i].stmt.Body[((j - i - 1) % n) + 1]
                                     /\ LoopVarBefore(i, j) = Nth(a, s, (j - i - 1) \div n)
               /\ Over(i) => /\ BodyRun(i) = n * c
                              /\ LoopVarNext(i, i + BodyRun(i)) = Nth(a, s, c)

\* FOR x = 1.5 TO n STEP 0.5, with n = 3, is over after four iterations of a
\* body that sets n to 0 and the variable s to 2
C29_Witness ==
    \E i \in 1..Len(trace) :
        /\ SimpleFor(trace[i]) /\ ~BodyAssigns(trace[i].stmt) /\ Over(i)
        /\ StartOf(trace[i]) = Float(3, 2) /\ StepOf(trace[i]) = Float(1, 2)
        /\ trace[i].stmt.End = Identifier("n") /\ LimitOf(trace[i]) = Float(3, 1)
        /\ Len(trace[i].stmt.Body) = 2 /\ BodyRun(i) = 8
        /\ Call("EnvGet", <<heap, env, "n">>).val.val = 0

\* the least element of a set of numbers
Lowest(S) == CHOOSE x \in S : \A y \in S : x <= y

\* the tokens of line l of the source, and the type of the first of them
LineTokens(stream, l) == SelectSeq(stream, LAMBDA t : t.Line = l)
FirstType(stream, l) == Head(LineTokens(stream, l)).Type

\* the lines of the CASE clauses of the SELECT CASE of line l, and the line
\* of its END SELECT
EndSelectLine(stream, l) ==
    Lowest({stream[k].Line : k \in {k \in 1..(Len(stream) - 1) :
            /\ stream[k].Type = "END" /\ stream[k + 1].Type = "SELECT"
            /\ stream[k].Line > l}})
CaseLines(stream, l) ==
    {c \in (l + 1)..EndSelectLine(stream, l) : FirstType(stream, c) = "CASE"}

\* the comparison of a CASE IS value
Comparison(type, v, w) ==
    CASE type = "EQ" -> v = w
      [] type = "NE" -> v # w
      [] type = "LT" -> v < w
      [] type = "GT" -> v > w
      [] type = "LE" -> v <= w
      [] OTHER -> v >= w

\* one value of a clause, as written, matches v: n, lo TO hi, IS <cmp> n or
\* <cmp> n
ValueMatches(item, v) ==
    IF Head(item).Literal = "IS" THEN Comparison(item[2].Type, v, Call("Atoi", <<item[3].Literal>>))
    ELSE IF Head(item).Type \in ComparisonTokens
    THEN Comparison(item[1].Type, v, Call("Atoi", <<item[2].Literal>>))
    ELSE IF Len(item) = 3
    THEN Call("Atoi", <<item[1].Literal>>) <= v /\ v <= Call("Atoi", <<item[3].Literal>>)
    ELSE v = Call("Atoi", <<item[1].Literal>>)

\* some value of the comma-separated list of values matches v
RECURSIVE ListMatches(_, _, _)
ListMatches(list, item, v) ==
    IF list = <<>> THEN ValueMatches(item, v)
    ELSE IF Head(list).Type = "COMMA"
    THEN ValueMatches(item, v) \/ ListMatches(Tail(list), <<>>, v)
    ELSE ListMatches(Tail(list), Append(item, Head(list)), v)

\* the clause of line c is the CASE ELSE; the clause of line c matches v
IsCaseElse(stream, c) == LineTokens(stream, c)[2].Type = "ELSE"
ClauseFits(stream, c, v) ==
    ~IsCaseElse(stream, c) /\ ListMatches(Tail(LineTokens(stream, c)), <<>>, v)

\* the line of the clause that SELECT CASE of line l must choose for v: the
\* first clause that matches, the CASE ELSE when none does, 0 without one
Chosen(stream, l, v) ==
    LET matching == {c \in CaseLines(stream, l) : ClauseFits(stream, c, v)}
        elses == {c \in CaseLines(stream, l) : IsCaseElse(stream, c)}
    IN IF matching # {} THEN Lowest(matching) ELSE IF elses # {} THEN Lowest(elses) ELSE 0

\* the lines of the statements of the body of the clause of line c
BodyLines(stream, l, c) ==
    IF c = 0 THEN {}
    ELSE {b \in (c + 1)..EndSelectLine(stream, l) :
            /\ FirstType(stream, b) \notin {"CASE", "END"}
            /\ \A d \in CaseLines(stream, l) : d <= c \/ d > b}

\* the value of the scrutinee of the SELECT CASE of entry e
Scrutinee(e) == Trunc(Call("ToFloat", <<ValueAt(e, e.stmt.Expression)>>))

\* the lines of the statements that the SELECT CASE of entry i has executed
ExecutedLines(i) == {trace[j].Line : j \in {j \in (i + 1)..Len(trace) : InLoop(i, j)}}

\* C30: a SELECT CASE executes statements of one clause only, the first
\* clause of the source one of whose values matches the scrutinee (equality,
\* lo <= v <= hi, or IS comparison) or, when no clause matches, the CASE ELSE;
\* when it is over it has executed each statement of that body once, and
\* nothing when there is no such clause.
C30_FirstMatchingClause ==
    \A i \in 1..Len(trace) :
        (trace[i].type = "SelectCaseStmt" /\ trace[i].ok) =>
            LET body == BodyLines(tokens.stream, trace[i].Line,
                                  Chosen(tokens.stream, trace[i].Line, Scrutinee(trace[i])))
            IN /\ ExecutedLines(i) \subseteq body
               /\ Over(i) => (ExecutedLines(i) = body /\ BodyRun(i) = Cardinality(body))

\* a SELECT CASE whose second clause matches the scrutinee, and whose first
\* clause does not, is over
C30_Witness ==
    \E i \in 1..Len(trace) :
        /\ trace[i].type = "SelectCaseStmt" /\ trace[i].ok /\ Over(i)
        /\ Chosen(tokens.stream, trace[i].Line, Scrutinee(trace[i])) = 5
        /\ Scrutinee(trace[i]) = 2


\* --------------------------------------------------------------------------
\* EXIT FOR / EXIT DO / EXIT WHILE.  The statements of a body are on the lines
\* 10 * b + k of the block on line b, so the blocks around a statement are on
\* the lines that drop its last digits; a block that encloses a statement
\* that ran has been dispatched before it.
\* --------------------------------------------------------------------------
LoopKind(type) ==
    CASE type = "ForStmt" -> "FOR"
      [] type = "WhileStmt" -> "WHILE"
      [] type = "DoLoopStmt" -> "DO"
      [] OTHER -> ""

\* the type of the statement on a line, "" when it was never dispatched (the
\* header of a routine whose body runs is not)
TypeOnLine(line) ==
    IF \E j \in 1..Len(trace) : trace[j].Line = line
    THEN trace[CHOOSE j \in 1..Len(trace) : trace[j].Line = line].type
    ELSE ""

\* the line of the innermost loop of that kind around the statement on line,
\* 0 when there is none inside the routine
RECURSIVE EnclosingLoop(_, _)
EnclosingLoop(line, kind) ==
    IF line \div 10 = 0 \/ TypeOnLine(line \div 10) \in {"", "SubStatement", "FuncStatement"}
    THEN 0
    ELSE IF LoopKind(TypeOnLine(line \div 10)) = kind THEN line \div 10
    ELSE EnclosingLoop(line \div 10, kind)

LoopExit(e) == e.type = "ExitStmt" /\ e.stmt.ExitType \in LoopKinds

\* C31: an EXIT FOR / DO / WHILE ends exactly the innermost enclosing loop of
\* its kind, through IF blocks and loops of other kinds: the statement after
\* that loop runs next, inside the loops around it.  With no enclosing loop
\* of its kind the EXIT ends the run with an error.
C31_ExitLeavesInnermostLoop ==
    \A i \in 1..Len(trace) :
        LoopExit(trace[i]) =>
            IF EnclosingLoop(trace[i].Line, trace[i].stmt.ExitType) = 0
            THEN i = Len(trace) /\ result # "ok"
            ELSE /\ i < Len(trace) =>
                        trace[i + 1].Line
                            = EnclosingLoop(trace[i].Line, trace[i].stmt.ExitType) + 1
                 /\ ~(i = Len(trace) /\ result \in {"error", "crashed"})

\* the same for the EXITs that a loop of the routine encloses, or that run at
\* the module level or in a routine called outside every loop
C31Lexical ==
    \A i \in 1..Len(trace) :
        (LoopExit(trace[i]) /\ trace[i].routine = "") =>
            IF EnclosingLoop(trace[i].Line, trace[i].stmt.ExitType) = 0
            THEN i = Len(trace) /\ result # "ok"
            ELSE /\ i < Len(trace) =>
                        trace[i + 1].Line
                            = EnclosingLoop(trace[i].Line, trace[i].stmt.ExitType) + 1
                 /\ ~(i = Len(trace) /\ result \in {"error", "crashed"})

\* an EXIT in a SUB that has no loop of its kind has ended the loop of the
\* caller: the statement after the caller's loop has run, in the environment
\* of the SUB
C31_Witness ==
    \E i \in 1..(Len(trace) - 1) :
        /\ LoopExit(trace[i]) /\ trace[i].routine = "callSub"
        /\ EnclosingLoop(trace[i].Line, trace[i].stmt.ExitType) = 0
        /\ trace[i + 1].routine = "" /\ trace[i + 1].depth = 0
        /\ trace[i + 1].env # 1 /\ trace[i + 1].ok


\* --------------------------------------------------------------------------
\* NEXT with a variable
\* --------------------------------------------------------------------------
\* the line of the first NEXT of the source, from token k on, that names a
\* variable other than that of the FOR it closes (open: the variables of the
\* FORs not yet closed, innermost last); 0 when there is none
RECURSIVE NextMismatch(_, _, _)
NextMismatch(stream, k, open) ==
    IF k > Len(stream) THEN 0
    ELSE IF /\ stream[k].Type = "FOR" /\ k + 2 <= Len(stream)
            /\ stream[k + 1].Type = "IDENT" /\ stream[k + 2].Type = "EQ"
    THEN NextMismatch(stream, k + 1, Append(open, stream[k + 1].Literal))
    ELSE IF stream[k].Type = "NEXT" /\ open # <<>>
    THEN IF /\ k < Len(stream) /\ stream[k + 1].Type = "IDENT"
            /\ Call("ToUpper", <<stream[k + 1].Literal>>) # Call("ToUpper", <<Last(open)>>)
         THEN stream[k].Line
         ELSE NextMismatch(stream, k + 1, Front(open))
    ELSE NextMismatch(stream, k + 1, open)

MismatchLine == NextMismatch(tokens.stream, 1, <<>>)

\* C32: a NEXT that names a variable other than the loop variable of the
\* innermost active FOR fails at run time: the run does not end without an
\* error, and nothing after that NEXT is executed.
C32_MismatchedNextFails ==
    (result # "parsing" /\ MismatchLine # 0) =>
        /\ result # "ok"
        /\ \A i \in 1..Len(trace) : trace[i].Line < MismatchLine

\* a run of a source whose NEXT names another variable has ended without an
\* error, after the statement that follows the NEXT
C32_Witness ==
    /\ result = "ok" /\ MismatchLine # 0
    /\ \E i \in 1..Len(trace) : trace[i].Line > MismatchLine /\ trace[i].ok
    /\ \E i \in 1..Len(trace) : \E j \in (i + 1)..Len(trace) :
            trace[i].Line = trace[j].Line /\ trace[i].Line < MismatchLine


\* --------------------------------------------------------------------------
\* Lines and comments in the token stream
\* --------------------------------------------------------------------------
\* the positions at which a line terminator (LF, CR or CRLF) starts
TermStarts(input) ==
    {k \in 1..Len(input) :
        \/ input[k] = "\r"
        \/ input[k] = "\n" /\ (k = 1 \/ input[k - 1] # "\r")}

\* the position of the terminator of the line of position p (past the end
\* of the input for the last line)
RECURSIVE EndOfLine(_, _)
EndOfLine(input, p) ==
    IF p > Len(input) \/ input[p] \in {"\n", "\r"} THEN p ELSE EndOfLine(input, p + 1)

\* the first position from p on that holds no blank
RECURSIVE AfterBlanks(_, _)
AfterBlanks(input, p) ==
    IF p <= Len(input) /\ input[p] \in {" ", "\t"} THEN AfterBlanks(input, p + 1) ELSE p

\* the text of the comment that the REM token at position p stands for: what
\* follows the apostrophe, or what follows REM and the blanks after it, up
\* to the end of the line
CommentText(input, p) ==
    LET From(q) == SubSeq(input, q, EndOfLine(input, p) - 1)
    IN IF input[p] = "'" THEN From(p + 1) ELSE From(AfterBlanks(input, p + 3))

IsSuffix(t, text) ==
    Len(t) <= Len(text) /\ SubSeq(text, Len(text) - Len(t) + 1, Len(text)) = t

NewlineTokens(stream) == {i \in 1..Len(stream) : stream[i].Type = "NEWLINE"}

\* C33: the lexer emits exactly one NEWLINE token for every line terminator,
\* also for the one that ends a comment; a comment takes nothing of the next
\* line (the token after it starts at the end of its line) and its REM token
\* carries the whole comment text; the Line of every token is 1 plus the
\* number of line terminators before it.
C33_OneNewlinePerTerminator ==
    "lexer" \in DOMAIN tokens =>
        /\ result # "lexing" =>
                Cardinality(NewlineTokens(tokens.stream))
                    = Cardinality(TermStarts(tokens.lexer.input))
        /\ \A i \in 1..Len(tokens.stream) :
                /\ tokens.stream[i].Line
                        = 1 + Cardinality({k \in TermStarts(tokens.lexer.input) :
                                              k < tokens.stream[i].pos})
                /\ tokens.stream[i].Type = "REM" =>
                        /\ IsSuffix(CommentText(tokens.lexer.input, tokens.stream[i].pos),
                                    tokens.stream[i].Literal)
                        /\ i < Len(tokens.stream) =>
                                tokens.stream[i + 1].pos
                                    = EndOfLine(tokens.lexer.input, tokens.stream[i].pos)

\* the same for the sources without the keyword REM
C33Apostrophe ==
    ("lexer" \in DOMAIN tokens
        /\ \A i \in 1..Len(tokens.stream) :
                tokens.stream[i].Type = "REM"
                    => tokens.lexer.input[tokens.stream[i].pos] = "'")
        => C33_OneNewlinePerTerminator

\* a bare REM has taken the following line into its token: the source has
\* been read to its end with fewer NEWLINE tokens than line terminators
C33_Witness ==
    /\ result = "parsing" /\ "lexer" \in DOMAIN tokens
    /\ \E i \in 1..Len(tokens.stream) :
            /\ tokens.stream[i].Type = "REM"
            /\ tokens.stream[i].Literal = <<"R", "E", "M", " ", "x", "=", "1">>
    /\ Cardinality(NewlineTokens(tokens.stream)) < Cardinality(TermStarts(tokens.lexer.input))


\* --------------------------------------------------------------------------
\* Operator precedence
\* --------------------------------------------------------------------------
\* the levels of the precedence list, lowest first
Rank(type) ==
    CASE type = "IMP" -> 1
      [] type = "EQV" -> 2
      [] type = "XOR" -> 3
      [] type = "OR" -> 4
      [] type = "AND" -> 5
      [] type = "NOT" -> 6
      [] type \in {"EQ", "NE", "LT", "GT", "LE", "GE"} -> 7
      [] type \in {"PLUS", "MINUS"} -> 8
      [] type = "MOD" -> 9
      [] type = "BACKSLASH" -> 10
      [] type \in {"ASTERISK", "SLASH"} -> 11
      [] type = "CARET" -> 13
      [] OTHER -> 0
UnaryRank(type) == IF type = "NOT" THEN 6 ELSE 12

\* the tree that the precedence list gives the expression e of a source
Grouping(e) ==
    LET Leaf(k) == Identifier(e[k].Literal)
        Two(k, l, r) == BinaryExpr(tokenToOperator(e[k].Type), l, r)
        One(k, r) == UnaryExpr(tokenToOperator(e[k].Type), r)
    IN IF Len(e) = 5
       THEN IF \/ Rank(e[2].Type) > Rank(e[4].Type)
               \/ Rank(e[2].Type) = Rank(e[4].Type) /\ e[2].Type # "CARET"
            THEN Two(4, Two(2, Leaf(1), Leaf(3)), Leaf(5))
            ELSE Two(2, Leaf(1), Two(4, Leaf(3), Leaf(5)))
       ELSE IF e[1].Type = "IDENT"
       THEN Two(2, Leaf(1), One(3, Leaf(4)))
       ELSE IF Rank(e[3].Type) > UnaryRank(e[1].Type)
       THEN One(1, Two(3, Leaf(2), Leaf(4)))
       ELSE Two(3, One(1, Leaf(2)), Leaf(4))

ExprOf(stream) == SubSeq(stream, 3, Len(stream) - 1)

\* C35: the tree the parser builds groups the operators by the precedence
\* list: a tighter operator takes its operands first, operators of one level
\* group to the left except ^, which groups to the right, and a unary NOT or
\* - takes everything that binds tighter than it (NOT a = b is NOT (a = b),
\* -a ^ b is -(a ^ b)).
C35_TreeFollowsPrecedence ==
    (result = "ready" /\ Len(program.Statements) = 1) =>
        program.Statements[1].Value = Grouping(ExprOf(tokens.stream))

\* the same for the sources that do not begin with NOT
C35NoLeadingNot ==
    (result = "ready" /\ tokens.stream[3].Type # "NOT") =>
        /\ Len(program.Statements) = 1
        /\ program.Statements[1].Value = Grouping(ExprOf(tokens.stream))

\* NOT a = b has been parsed as (NOT a) = b
C35_Witness ==
    /\ result = "ready"
    /\ tokens.stream[3].Type = "NOT" /\ tokens.stream[5].Type = "EQ"
    /\ program.Statements[1].Value
            = BinaryExpr("=", UnaryExpr("NOT", Identifier("a")), Identifier("b"))


\* --------------------------------------------------------------------------
\* Termination of the parser
\* --------------------------------------------------------------------------
\* C34: ParseProgram terminates on every finite input, well-formed or not:
\* it returns, with the errors of a malformed input in its error list.
C34_ParseProgramTerminates == <>(result \in {"ready", "rejected"})

\* the loop over the dimensions of DIM a(1 is at the end of the input and
\* has gone through three more iterations there, each leaving curToken on
\* EOF, appending a nil dimension and recording an error
C34_Witness ==
    /\ result = "parsing" /\ "dim" \in DOMAIN tokens
    /\ tokens.dim # <<>> /\ tokens.dim[1].at = "dims"
    /\ curTokenIs(Here, "EOF")
    /\ Len(tokens.dim[1].Dimensions) >= 4
    /\ \A k \in 0..2 :
            tokens.dim[1].Dimensions[Len(tokens.dim[1].Dimensions) - k] = NoExpr
    /\ tokens.errors >= 3


\* --------------------------------------------------------------------------
\* File operations on unopened handles and against the mode of the handle
\* --------------------------------------------------------------------------
\* the file number a file operation names first, when it is a literal
FileNumber(e) ==
    CASE e.type = "CloseStmt" -> e.stmt.FileNums[1].Value
      [] e.type = "LetStmt" -> e.stmt.Value.Arguments[1].Value
      [] OTHER -> e.stmt.FileNum.Value

IsFileOperation(e) ==
    \/ e.type \in {"PrintFileStmt", "LineInputFileStmt", "GetStmt", "PutStmt", "SeekStmt"}
          /\ e.stmt.FileNum.node = "IntegerLiteral"
    \/ e.type = "CloseStmt" /\ Len(e.stmt.FileNums) > 0
    \/ /\ e.type = "LetStmt" /\ e.stmt.Value.node = "CallExpr"
       /\ e.stmt.Value.Function \in FileFunctions
       /\ Len(e.stmt.Value.Arguments) = 1
       /\ e.stmt.Value.Arguments[1].node = "IntegerLiteral"

\* the operation is against the table: a number not in it, a write on an
\* INPUT handle, a read on an OUTPUT or APPEND handle
Unopened(e) ==
    \/ e.type = "CloseStmt"
          /\ \E k \in 1..Len(e.stmt.FileNums) : e.stmt.FileNums[k].Value \notin DOMAIN e.files
    \/ e.type # "CloseStmt" /\ FileNumber(e) \notin DOMAIN e.files
AgainstMode(e) ==
    /\ e.type \in {"PrintFileStmt", "LineInputFileStmt", "GetStmt", "PutStmt"}
    /\ FileNumber(e) \in DOMAIN e.files
    /\ \/ e.type \in {"PrintFileStmt", "PutStmt"} /\ e.files[FileNumber(e)].Mode = "INPUT"
       \/ /\ e.type \in {"LineInputFileStmt", "GetStmt"}
          /\ e.files[FileNumber(e)].Mode \in {"OUTPUT", "APPEND"}

\* C36: a file operation on a file number that is not in the file-handle
\* table fails, a write on a handle opened FOR INPUT fails, a read on a
\* handle opened FOR OUTPUT or APPEND fails, and a failing file operation
\* leaves the file-handle table unchanged.
C36_FileOperationsChecked ==
    \A i \in 1..Len(trace) :
        IsFileOperation(trace[i]) =>
            /\ (Unopened(trace[i]) \/ AgainstMode(trace[i])) => ~trace[i].ok
            /\ ~trace[i].ok => trace[i].filesAfter = trace[i].files

\* the statement failed on the handle it had fetched, which a FUNCTION called
\* by one of its operands had closed
ClosedMeanwhile(e) ==
    \E op \in {"write ", "read ", "seek "}, f \in {F, G} :
        e.error = op \o Call("TextOf", <<f>>) \o ": file already closed"

\* what the code does: every such operation fails, and the failing ones that
\* change the table are a CLOSE that has closed the handles listed before the
\* number that is not open, and a statement with an operand that has closed
\* the file of the statement
C36Fails ==
    \A i \in 1..Len(trace) :
        IsFileOperation(trace[i]) =>
            /\ (Unopened(trace[i]) \/ AgainstMode(trace[i])) => ~trace[i].ok
            /\ (~trace[i].ok /\ trace[i].type # "CloseStmt" /\ ~ClosedMeanwhile(trace[i]))
                  => trace[i].filesAfter = trace[i].files

\* PRINT #1, R() where R closes #1 and opens it again on another file: the
\* statement has failed on the closed handle, and the table has changed
C36HeldHandle ==
    \E i \in 1..Len(trace) :
        /\ trace[i].type = "PrintFileStmt" /\ ~trace[i].ok
        /\ trace[i].error = "write " \o Call("TextOf", <<F>>) \o ": file already closed"
        /\ 1 \in DOMAIN trace[i].filesAfter
        /\ trace[i].filesAfter[1].Name = G
        /\ trace[i].diskAfter[G] = <<>>

\* CLOSE #1, #2 with #1 open and #2 not: the statement has failed and #1 is
\* no longer in the table
C36_Witness ==
    \E i \in 1..Len(trace) :
        /\ trace[i].type = "CloseStmt" /\ Len(trace[i].stmt.FileNums) = 2
        /\ trace[i].stmt.FileNums[1].Value \in DOMAIN trace[i].files
        /\ trace[i].stmt.FileNums[2].Value \notin DOMAIN trace[i].files
        /\ ~trace[i].ok
        /\ trace[i].error = Call("FileError", <<trace[i].stmt.FileNums[2].Value, " not open">>).what
        /\ trace[i].stmt.FileNums[1].Value \notin DOMAIN trace[i].filesAfter
        /\ result = "error"


\* --------------------------------------------------------------------------
\* CHR$, LEN and ASC
\* --------------------------------------------------------------------------
\* the run of N = n : S$ = CHR$(N) : L = LEN(S$) : A = ASC(S$) has ended
ChrRun ==
    /\ result \in {"ok", "error"}
    /\ Len(program.Statements) = 4
    /\ program.Statements[2].type = "LetStmt"
    /\ program.Statements[2].Value = CallExpr("CHR$", <<Identifier("N")>>)
ChrCode == Call("ToInt", <<Call("EnvGet", <<heap, env, "N">>).val>>)
ChrLen == Call("EnvGet", <<heap, env, "L">>).val
ChrAsc == Call("EnvGet", <<heap, env, "A">>).val

\* C38: for every n in 0..255 CHR$(n) is a string of one byte, so that
\* LEN(CHR$(n)) = 1, and ASC(CHR$(n)) = n; CHR$ fails for n outside 0..255.
C38_ChrOneByte ==
    ChrRun =>
        IF ChrCode \in 0..255
        THEN /\ result = "ok"
             /\ ChrLen.val = 1
             /\ ChrAsc.val = ChrCode
        ELSE result = "error" /\ ~Call("EnvGet", <<heap, env, "S$">>).ok

\* what the code does: string(rune(n)) is the UTF-8 encoding of n, one
\* byte below 128 and two bytes from 128 on, of which ASC gives the first
C38Utf8 ==
    ChrRun =>
        IF ChrCode \in 0..127
        THEN result = "ok" /\ ChrLen.val = 1 /\ ChrAsc.val = ChrCode
        ELSE IF ChrCode \in 128..255
        THEN /\ result = "ok" /\ ChrLen.val = 2
             /\ ChrAsc.val = 192 + (ChrCode \div 64)
        ELSE result = "error" /\ ~Call("EnvGet", <<heap, env, "S$">>).ok

\* CHR$(200) has given a string of two bytes whose first byte is 195
C38_Witness ==
    /\ ChrRun /\ result = "ok"
    /\ ChrCode = 200
    /\ Call("EnvGet", <<heap, env, "S$">>).val = StringValue(<<195, 136>>)
    /\ ChrLen = LongValue(2)
    /\ ChrAsc = LongValue(195)


\* --------------------------------------------------------------------------
\* Binary operators on a string and a number
\* --------------------------------------------------------------------------
\* the statement is X = l op r with literal operands, one a string and one a
\* number, and op is not +
MixedOperands(e) ==
    /\ e.type = "LetStmt" /\ e.stmt.Value.node = "BinaryExpr"
    /\ e.stmt.Value.Operator # "+"
    /\ {e.stmt.Value.Left.node, e.stmt.Value.Right.node}
          = {"StringLiteral", "IntegerLiteral"}

\* C37: a binary operator other than + applied to one string operand and one
\* numeric operand fails with a type error; it never converts the string to
\* a number and yields a result.
C37_MixedOperandsFail ==
    \A i \in 1..Len(trace) :
        MixedOperands(trace[i]) => ~trace[i].ok /\ trace[i].heapAfter = trace[i].heap

\* what the code does: the string is converted with ToFloat and the operator
\* applied to the two numbers; the only failure is a division by zero
C37Converts ==
    \A i \in 1..Len(trace) :
        MixedOperands(trace[i]) =>
            LET l == Call("BinaryOp", <<trace[i].stmt.Value.Operator,
                              Call("ToFloat", <<StringValue(trace[i].stmt.Value.Left.Value)>>),
                              Float(trace[i].stmt.Value.Right.Value, 1)>>)
                r == Call("BinaryOp", <<trace[i].stmt.Value.Operator,
                              Float(trace[i].stmt.Value.Left.Value, 1),
                              Call("ToFloat", <<StringValue(trace[i].stmt.Value.Right.Value)>>)>>)
                w == IF trace[i].stmt.Value.Left.node = "StringLiteral" THEN l ELSE r
            IN IF w.sig = ErrorOf("division by zero")
               THEN ~trace[i].ok /\ trace[i].error = "division by zero"
               ELSE /\ trace[i].ok
                    /\ Call("EnvGet", <<trace[i].heapAfter, trace[i].envAfter, "X">>).val = w.val

\* X = "5" * 2 has run without an error and X is the Double 10
C37_Witness ==
    \E i \in 1..Len(trace) :
        /\ MixedOperands(trace[i])
        /\ trace[i].stmt.Value = BinaryExpr("*", StringLiteral(<<53>>), IntegerLiteral(2))
        /\ trace[i].ok
        /\ Call("EnvGet", <<trace[i].heapAfter, trace[i].envAfter, "X">>).val = DoubleValue(10)
        /\ result = "ok"


\* --------------------------------------------------------------------------
\* One run at a time in the IDE
\* --------------------------------------------------------------------------
\* the goroutines whose program has not finished: started by a request and
\* not yet back from Interpreter.Run
InProgress ==
    {g \in 1..Len(goStack) :
        goStack[g].pc \in {"spawned", "banner", "queue", "run", "running", "output",
                           "printed"}}

\* C39: in the IDE at most one interpreter run is in progress at any time: a
\* request to start made while a program started by an earlier request has
\* not finished does not start a second run, whatever the interleaving of
\* the event handler and the goroutine that executes the program.
C39_OneRunAtATime == Cardinality(InProgress) <= 1

\* what the flag does give: a request made while e.running is set, and the
\* UI thread is sure to see it, starts nothing: runProgram returns at its
\* test
C39FlagRefuses ==
    [][(result = "editing" /\ state.at = "idle" /\ state.running /\ state.synced)
            => state'.at = "idle"]_vars

\* two goroutines are inside Interpreter.Run at once, the second started by
\* a request made before the first had set e.running
C39_Witness ==
    /\ result = "editing"
    /\ Len(goStack) >= 2
    /\ goStack[1].pc = "running" /\ goStack[2].pc = "running"
    /\ state.running

====
